---- MODULE Spec2Model ----
(* Appointment store, voice-agent tools and REST appointment routes of the   *)
(* echo-backend repository, as a state machine.                              *)
(*                                                                           *)
(* Dates are day numbers, times of day are minutes since midnight.  A tool   *)
(* that reads the store and later commits is two steps (its queries, then    *)
(* its commit), because other workers' transactions can commit in between.   *)
EXTENDS Integers, Sequences, FiniteSets, TLC

(***************************************************************************)
(* Bounds of the model                                                     *)
(***************************************************************************)
MaxAppts == 2          \* appointment rows ever inserted
MaxDay == 1            \* last day the clock reaches (it starts on day 0)
MaxInFlight == 2       \* tool calls and requests between their queries and commit
MaxTurns == 1          \* transcript turns recorded per call
MaxSummaries == 2      \* end_conversation calls that reach the store
MaxSpoken == 3         \* turns spoken in one call
LastRefDay == 8        \* last day a call may take place on, for date phrases
MaxHourSaid == 25      \* largest hour number a caller says
MaxStored == 8         \* rows in the store when a call starts (SpecList)

(***************************************************************************)
(* Program constants                                                       *)
(***************************************************************************)
OpenHour == 9          \* first bookable hour
CloseHour == 17        \* first hour after business hours
NearbyLimit == 3       \* alternatives / candidates offered
ListLimit == 5         \* appointments read out by get_appointments
TodayShown == 6        \* today's slots read out by the overview
MinPhoneLen == 10      \* UserBase.phone_number min_length
MaxPhoneLen == 20      \* UserBase.phone_number max_length

Sessions == {"s1", "s2"}
Procs == Sessions \cup {"rest"}
Phones == {"p1", "p2"}
NowPoints == <<570, 600>>     \* 09:30, 10:00

\* phone numbers that are not ten digits long, beside the ten-digit Phones
ShortPhone == "555"
LongPhone == "15551234567"
AllPhones == Phones \cup {ShortPhone, LongPhone}

\* len(phone_number)
PhoneLen(ph) ==
    CASE ph = ShortPhone -> 3
      [] ph = LongPhone -> 11
      [] OTHER -> 10

T(h, m) == h * 60 + m
HourOf(t) == t \div 60

NoDate == [kind |-> "absent", day |-> 0]
Today == [kind |-> "today", day |-> 0]
Tomorrow == [kind |-> "tomorrow", day |-> 0]
Iso(d) == [kind |-> "iso", day |-> d]
Weekday(i) == [kind |-> "weekday", day |-> i]
Garbage == [kind |-> "garbage", day |-> 0]
\* "January 2", "Feb 29": month and day of the month, no year
MonthDay(m, d) == [kind |-> "monthday", day |-> m * 100 + d]

Bare(h, mer) == [form |-> "bare", h |-> h, m |-> 0, mer |-> mer, sp |-> FALSE]
Colon(h, m, mer) == [form |-> "colon", h |-> h, m |-> m, mer |-> mer, sp |-> TRUE]
BadTime == [form |-> "garbage", h |-> 0, m |-> 0, mer |-> "", sp |-> FALSE]

None == -1             \* an unresolved date or time

VARIABLES users, appts, today, now, session_keys, session_data, pending, last,
          cancel_confirmed, summaries, end_invoked, shutdown,
          sent_messages, turns, events

vars == <<users, appts, today, now, session_keys, session_data, pending, last,
          cancel_confirmed, summaries, end_invoked, shutdown,
          sent_messages, turns, events>>

\* the call_summaries table, the calls whose end_conversation tool has run,
\* and the calls whose shutdown_event is set
teardown == <<summaries, end_invoked, shutdown>>

\* per call: the sent_messages set of entrypoint, the turns as they were
\* spoken, and the session events emitted and not yet handled
dialogue == <<sent_messages, turns, events>>

(***************************************************************************)
(* Pure helpers                                                            *)
(***************************************************************************)
Unset == "unset"     \* a status the pending UPDATE does not write

Idle == [op |-> "idle", phone |-> "none", name |-> "none", arg |-> NoDate,
         uid |-> 0, id |-> 0, date |-> 0, time |-> 0, status |-> Unset]

Outcome(tool, kind) ==
    [tool |-> tool, kind |-> kind, ids |-> <<>>, slots |-> <<>>, n |-> 0,
     more |-> 0, date |-> 0, time |-> 0, today |-> 0, now |-> 0, text |-> <<>>]

NoData == [user_id |-> 0, user_name |-> "none", user_phone |-> "none",
           appointments_booked |-> <<>>, conversation_history |-> <<>>]

\* the first n elements of a sequence (a[:n])
Take(s, n) == SubSeq(s, 1, IF Len(s) < n THEN Len(s) ELSE n)

UserByPhone(us, ph) ==
    IF \E i \in 1..Len(us) : us[i].phone_number = ph
    THEN CHOOSE i \in 1..Len(us) :
             us[i].phone_number = ph /\ \A j \in 1..(i - 1) : us[j].phone_number # ph
    ELSE 0

(***************************************************************************)
(* Date and time phrase resolution                                         *)
(***************************************************************************)
\* date.weekday() of a day number; day 0 is a Monday
WeekdayOf(d) == d % 7

\* the branch with days_ahead < 0 for days_ahead <= 0
NextWeekday_OrSameDay(i, ref) ==
    LET days_ahead == i - WeekdayOf(ref)
    IN ref + (IF days_ahead < 0 THEN days_ahead + 7 ELSE days_ahead)

\* the weekday-name branch: next occurrence strictly after the reference day
NextWeekday(i, ref) ==
    LET days_ahead == i - WeekdayOf(ref)
    IN ref + (IF days_ahead <= 0 THEN days_ahead + 7 ELSE days_ahead)

\* Calendar: day 0 is Monday 1 January of a leap year, and every day a call
\* takes place on lies in that year.  strptime reads a format without %Y
\* into the year 1900, which is not a leap year.
DaysIn(m, leap) ==
    CASE m = 2 -> IF leap THEN 29 ELSE 28
      [] m \in {4, 6, 9, 11} -> 30
      [] OTHER -> 31

RECURSIVE DaysBefore(_, _)
DaysBefore(m, leap) == IF m = 1 THEN 0 ELSE DaysBefore(m - 1, leap) + DaysIn(m - 1, leap)

\* days from 1 January 1900 to day 0 (1 January 2024)
DaysSince1900 == 45290

\* datetime.strptime(date_str, "%B %d").date(): a date of the year 1900,
\* ValueError for a day that year's month does not have
Strptime1900(p) ==
    LET m == p.day \div 100
        d == p.day % 100
    IN IF m \in 1..12 /\ d \in 1..DaysIn(m, FALSE)
       THEN DaysBefore(m, FALSE) + d - 1 - DaysSince1900
       ELSE None

\* parsed_date.year == 1900
In1900(date) == date < 0 - 1

\* parsed_date.replace(year=today.year)
ReplaceYear(date, p) == DaysBefore(p.day \div 100, TRUE) + (p.day % 100) - 1

\* the format loop for a month-and-day phrase, with the year replaced
MonthDayThisYear(p) ==
    LET parsed == Strptime1900(p)
    IN IF parsed # None /\ In1900(parsed) THEN ReplaceYear(parsed, p) ELSE parsed

\* book_appointment / get_availability: keywords, explicit formats, weekdays
ParseDateBook(p, ref) ==
    CASE p.kind = "today" -> ref
      [] p.kind = "tomorrow" -> ref + 1
      [] p.kind = "iso" -> p.day
      [] p.kind = "monthday" -> MonthDayThisYear(p)
      [] p.kind = "weekday" -> NextWeekday(p.day, ref)
      [] OTHER -> None

\* cancel_appointment: keywords and explicit formats only
ParseDateCancel(p, ref) ==
    CASE p.kind = "today" -> ref
      [] p.kind = "tomorrow" -> ref + 1
      [] p.kind = "iso" -> p.day
      [] p.kind = "monthday" -> Strptime1900(p)
      [] OTHER -> None

\* modify_appointment, new date: keywords and explicit formats only
ParseDateModifyNew(p, ref) ==
    CASE p.kind = "today" -> ref
      [] p.kind = "tomorrow" -> ref + 1
      [] p.kind = "iso" -> p.day
      [] p.kind = "monthday" -> MonthDayThisYear(p)
      [] OTHER -> None

\* modify_appointment, old date: strptime(old_date_str, "%Y-%m-%d") only
ParseDateModifyOld(p) == IF p.kind = "iso" THEN p.day ELSE None

\* %I read without its %p
Hour12_NoPm(h, mer) == IF h = 12 THEN 0 ELSE h

\* strptime's %I with %p
Hour12(h, mer) == IF mer = "pm" THEN (IF h = 12 THEN 12 ELSE h + 12)
                  ELSE (IF h = 12 THEN 0 ELSE h)

\* the fallback without its "assume PM" branch
CasualHour_AsSaid(h, mer) ==
    LET hour == IF mer = "pm" /\ h < 12 THEN h + 12
                ELSE IF mer = "am" /\ h = 12 THEN 0
                ELSE h
    IN IF 0 <= hour /\ hour <= 23 THEN T(hour, 0) ELSE None

\* the regex fallback r'^(\d{1,2})\s*(am|pm)?$' of book_appointment
CasualHour(h, mer) ==
    LET hour == IF mer = "pm" /\ h < 12 THEN h + 12
                ELSE IF mer = "am" /\ h = 12 THEN 0
                ELSE IF mer = "" /\ h < 9 THEN h + 12
                ELSE h
    IN IF 0 <= hour /\ hour <= 23 THEN T(hour, 0) ELSE None

\* book_appointment: "%I:%M %p", "%I:%M%p", "%H:%M", "%I %p", "%I%p", then
\* the casual form
ParseTimeBook(p) ==
    CASE p.form = "colon" /\ p.mer # "" ->
             IF 1 <= p.h /\ p.h <= 12 /\ p.m <= 59
             THEN T(Hour12(p.h, p.mer), p.m) ELSE None
      [] p.form = "colon" /\ p.mer = "" ->
             IF p.h <= 23 /\ p.m <= 59 THEN T(p.h, p.m) ELSE None
      [] p.form = "bare" /\ p.mer # "" ->
             IF 1 <= p.h /\ p.h <= 12
             THEN T(Hour12(p.h, p.mer), 0) ELSE CasualHour(p.h, p.mer)
      [] p.form = "bare" /\ p.mer = "" -> CasualHour(p.h, p.mer)
      [] OTHER -> None

\* modify_appointment: "%I:%M %p", "%I%p", "%I %p", "%H:%M", no casual form
ParseTimeModify(p) ==
    CASE p.form = "colon" /\ p.mer # "" ->
             IF p.sp /\ 1 <= p.h /\ p.h <= 12 /\ p.m <= 59
             THEN T(Hour12(p.h, p.mer), p.m) ELSE None
      [] p.form = "colon" /\ p.mer = "" ->
             IF p.h <= 23 /\ p.m <= 59 THEN T(p.h, p.m) ELSE None
      [] p.form = "bare" /\ p.mer # "" ->
             IF 1 <= p.h /\ p.h <= 12 THEN T(Hour12(p.h, p.mer), 0) ELSE None
      [] OTHER -> None

(***************************************************************************)
(* The store: queries and the unique constraints                           *)
(***************************************************************************)
Ids(as) == 1..Len(as)

\* the filter with >= for the time of day
Upcoming_Inclusive(a, tdy, cur) ==
    a.appointment_date > tdy \/ (a.appointment_date = tdy /\ a.appointment_time >= cur)

\* get_upcoming_appointments_filter
Upcoming(a, tdy, cur) ==
    a.appointment_date > tdy \/ (a.appointment_date = tdy /\ a.appointment_time > cur)

\* the same query with the status literal of another state
ScheduledAt_Completed(as, d, t) ==
    {i \in Ids(as) : as[i].appointment_date = d /\ as[i].appointment_time = t
                     /\ as[i].status = "completed"}

\* rows with the given date, time and status 'scheduled'
ScheduledAt(as, d, t) ==
    {i \in Ids(as) : as[i].appointment_date = d /\ as[i].appointment_time = t
                     /\ as[i].status = "scheduled"}

\* the same query without its user_id condition
UpcomingOf_AnyUser(as, uid, tdy, cur) ==
    {i \in Ids(as) : as[i].status = "scheduled" /\ Upcoming(as[i], tdy, cur)}

\* the user's upcoming scheduled rows
UpcomingOf(as, uid, tdy, cur) ==
    {i \in Ids(as) : as[i].user_id = uid /\ as[i].status = "scheduled"
                     /\ Upcoming(as[i], tdy, cur)}

\* the constraint with user_id among its columns
UniqueOK_PerUser(as, i, r) ==
    \A j \in Ids(as) :
        j # i => ~(as[j].user_id = r.user_id
                   /\ as[j].appointment_date = r.appointment_date
                   /\ as[j].appointment_time = r.appointment_time
                   /\ as[j].status = r.status)

\* UniqueConstraint("appointment_date", "appointment_time", "status"): whether
\* the table still satisfies it with row i replaced (or added) as r
UniqueOK(as, i, r) ==
    \A j \in Ids(as) :
        j # i => ~(as[j].appointment_date = r.appointment_date
                   /\ as[j].appointment_time = r.appointment_time
                   /\ as[j].status = r.status)

\* users.phone_number is unique
\* the users table without its unique index
PhoneFree_NoIndex(us, ph) == TRUE

PhoneFree(us, ph) == \A i \in 1..Len(us) : us[i].phone_number # ph

\* generate_slots_for_date: range(9, 17), on the hour
generate_slots_for_date == [k \in 1..(CloseHour - OpenHour) |-> T(OpenHour + k - 1, 0)]

\* the grid with nothing taken out
get_available_slots_WholeGrid(as, d) == generate_slots_for_date

\* get_available_slots: the grid minus the times of scheduled rows that day
get_available_slots(as, d) ==
    SelectSeq(generate_slots_for_date, LAMBDA t : ScheduledAt(as, d, t) = {})

\* every ordering of a set of rows that ORDER BY appointment_date allows
OrderedByDate(as, S) ==
    {q \in [1..Cardinality(S) -> S] :
        /\ \A a, b \in 1..Cardinality(S) : a # b => q[a] # q[b]
        /\ \A a, b \in 1..Cardinality(S) :
              a < b => as[q[a]].appointment_date <= as[q[b]].appointment_date}

\* ORDER BY appointment_date, appointment_time (ties by row id)
Before(as, i, j) ==
    \/ as[i].appointment_date < as[j].appointment_date
    \/ /\ as[i].appointment_date = as[j].appointment_date
       /\ \/ as[i].appointment_time < as[j].appointment_time
          \/ (as[i].appointment_time = as[j].appointment_time /\ i <= j)

\* the query without its order_by: rows come back in id order
OrderedByDateTime_ById(as, S) ==
    CHOOSE q \in [1..Cardinality(S) -> S] :
        \A a, b \in 1..Cardinality(S) : a < b => q[a] < q[b]

OrderedByDateTime(as, S) ==
    CHOOSE q \in [1..Cardinality(S) -> S] :
        /\ \A a, b \in 1..Cardinality(S) : a # b => q[a] # q[b]
        /\ \A a, b \in 1..Cardinality(S) : a < b => Before(as, q[a], q[b])

\* get_availability: same keywords and weekday branch, a longer format list
ParseDateAvail(p, ref) ==
    CASE p.kind = "today" -> ref
      [] p.kind = "tomorrow" -> ref + 1
      [] p.kind = "iso" -> p.day
      [] p.kind = "monthday" -> MonthDayThisYear(p)
      [] p.kind = "weekday" -> NextWeekday(p.day, ref)
      [] OTHER -> None

\* the filter with >= for >
FutureOnly_Inclusive(slots, cur) == SelectSeq(slots, LAMBDA t : t >= cur)

\* [t for t in available if t > current_time]
FutureOnly(slots, cur) == SelectSeq(slots, LAMBDA t : t > cur)

(***************************************************************************)
(* Session registry                                                        *)
(***************************************************************************)
Started(s) == \E k \in 1..Len(session_keys) : session_keys[k] = s

\* session_id = list(session_data.keys())[-1]: the tools write to the entry
\* inserted last
SetIdentity(sd, keys, uid, name, ph) ==
    IF keys = <<>> THEN sd
    ELSE [sd EXCEPT ![keys[Len(keys)]] =
             [@ EXCEPT !.user_id = uid, !.user_name = name, !.user_phone = ph]]

TrackBooking(sd, keys, entry) ==
    IF keys = <<>> THEN sd
    ELSE [sd EXCEPT ![keys[Len(keys)]].appointments_booked = Append(@, entry)]

\* the wall clock moves on: later the same day, or on to the next morning
Tick ==
    /\ \/ \E k \in 1..(Len(NowPoints) - 1) :
              now = NowPoints[k] /\ now' = NowPoints[k + 1] /\ today' = today
       \/ /\ now = NowPoints[Len(NowPoints)]
          /\ today < MaxDay
          /\ today' = today + 1
          /\ now' = NowPoints[1]
    /\ UNCHANGED <<users, appts, session_keys, session_data, pending, last,
                   cancel_confirmed, teardown, dialogue>>

\* entrypoint: a call starts and registers its session
Entrypoint(s) ==
    /\ ~Started(s)
    /\ session_keys' = Append(session_keys, s)
    /\ session_data' = [session_data EXCEPT ![s] = NoData]
    /\ UNCHANGED <<users, appts, today, now, pending, last, cancel_confirmed, teardown, dialogue>>

InFlight == Cardinality({p \in Procs : pending[p].op # "idle"})

\* tools of one call run one at a time, while the call is up
Ready(s) == Started(s) /\ pending[s].op = "idle" /\ s \notin shutdown

\* a call or request may start another transaction
MayBegin == InFlight < MaxInFlight

\* the function tools that go to the store inside one try block
Tools == {"identify_user", "create_user", "get_availability", "book_appointment",
          "cancel_appointment", "modify_appointment", "get_appointments"}

\* the except clause of each tool: four return a text that embeds str(e),
\* three return a fixed apology that asks to try again
ErrorKind(tool) ==
    IF tool \in {"identify_user", "create_user", "get_availability",
                 "cancel_appointment"}
    THEN "error_detail" ELSE "error"

\* the store raises on the first query of a tool call
store_failure(s, tool) ==
    /\ Ready(s)
    /\ last' = Outcome(tool, ErrorKind(tool))
    /\ UNCHANGED <<users, appts, today, now, session_keys, session_data, pending,
                   cancel_confirmed, teardown, dialogue>>

identify_user(s, ph) ==
    /\ Ready(s)
    /\ LET uid == UserByPhone(users, ph)
           found == OrderedByDateTime(appts, UpcomingOf(appts, uid, today, now))
       IN IF uid # 0
          THEN /\ session_data' = SetIdentity(session_data, session_keys, uid,
                                              users[uid].name, ph)
               /\ last' = [Outcome("identify_user", "found") EXCEPT
                              !.ids = Take(found, ListLimit)]
          ELSE /\ last' = Outcome("identify_user", "new_user")
               /\ UNCHANGED session_data
    /\ UNCHANGED <<users, appts, today, now, session_keys, pending, cancel_confirmed, teardown, dialogue>>

\* create_user up to its commit
create_user(s, ph, name) ==
    /\ Ready(s)
    /\ IF UserByPhone(users, ph) # 0
       THEN /\ last' = Outcome("create_user", "exists")
            /\ UNCHANGED pending
       ELSE /\ MayBegin
            /\ pending' = [pending EXCEPT ![s] =
                              [Idle EXCEPT !.op = "create_user", !.phone = ph,
                                           !.name = name]]
            /\ UNCHANGED last
    /\ UNCHANGED <<users, appts, today, now, session_keys, session_data,
                   cancel_confirmed, teardown, dialogue>>

\* db.commit() of create_user: the INSERT meets the unique phone number
create_user_commit(s) ==
    /\ pending[s].op = "create_user"
    /\ pending' = [pending EXCEPT ![s] = Idle]
    /\ IF PhoneFree(users, pending[s].phone)
       THEN /\ users' = Append(users, [phone_number |-> pending[s].phone,
                                        name |-> pending[s].name])
            /\ session_data' = SetIdentity(session_data, session_keys,
                                           Len(users) + 1, pending[s].name,
                                           pending[s].phone)
            /\ last' = Outcome("create_user", "created")
       ELSE /\ last' = Outcome("create_user", ErrorKind("create_user"))
            /\ UNCHANGED <<users, session_data>>
    /\ UNCHANGED <<appts, today, now, session_keys, cancel_confirmed, teardown, dialogue>>

get_availability(s, arg) ==
    /\ Ready(s)
    /\ IF arg # NoDate
       THEN LET target_date == ParseDateAvail(arg, today)
                available == IF target_date = today
                             THEN FutureOnly(get_available_slots(appts, target_date), now)
                             ELSE get_available_slots(appts, target_date)
            IN IF target_date = None
               THEN last' = Outcome("get_availability", "bad_date")
               ELSE last' = [Outcome("get_availability",
                                     IF available # <<>> THEN "slots" ELSE "no_slots")
                               EXCEPT !.slots = available,
                                      !.date = target_date, !.today = today,
                                      !.now = now]
       ELSE LET today_available == FutureOnly(get_available_slots(appts, today), now)
                tomorrow_available == get_available_slots(appts, today + 1)
            IN last' = [Outcome("get_availability", "overview") EXCEPT
                           !.slots = Take(today_available, TodayShown),
                           !.n = Len(tomorrow_available),
                           !.date = today, !.today = today, !.now = now]
    /\ UNCHANGED <<users, appts, today, now, session_keys, session_data, pending,
                   cancel_confirmed, teardown, dialogue>>

\* rows some worker has checked for and not yet inserted
PendingInserts == Cardinality({p \in Procs : pending[p].op \in {"book", "rest_create"}})

\* book_appointment up to its commit
book_appointment(s, ph, date_str, time_str) ==
    LET parsed_date == ParseDateBook(date_str, today)
        parsed_time == ParseTimeBook(time_str)
        uid == UserByPhone(users, ph)
        Say(kind) == Outcome("book_appointment", kind)
    IN
    /\ Ready(s)
    /\ IF parsed_date = None THEN last' = Say("bad_date") /\ UNCHANGED pending
       ELSE IF parsed_time = None THEN last' = Say("bad_time") /\ UNCHANGED pending
       ELSE IF HourOf(parsed_time) < OpenHour \/ HourOf(parsed_time) >= CloseHour
       THEN last' = Say("closed") /\ UNCHANGED pending
       ELSE IF ScheduledAt(appts, parsed_date, parsed_time) # {}
       THEN /\ last' = [Say("slot_taken") EXCEPT
                           !.date = parsed_date, !.time = parsed_time,
                           !.slots = Take(get_available_slots(appts, parsed_date),
                                          NearbyLimit)]
            /\ UNCHANGED pending
       ELSE IF uid = 0
       THEN /\ last' = [Say("no_account") EXCEPT
                           !.date = parsed_date, !.time = parsed_time]
            /\ UNCHANGED pending
       ELSE /\ MayBegin
            /\ Len(appts) + PendingInserts < MaxAppts
            /\ pending' = [pending EXCEPT ![s] =
                              [Idle EXCEPT !.op = "book", !.uid = uid,
                                           !.date = parsed_date, !.time = parsed_time]]
            /\ UNCHANGED last
    /\ UNCHANGED <<users, appts, today, now, session_keys, session_data,
                   cancel_confirmed, teardown, dialogue>>

\* the booking entered in the session's log before the commit is tried
book_commit_LogFirst(s) ==
    LET row == [user_id |-> pending[s].uid, appointment_date |-> pending[s].date,
                appointment_time |-> pending[s].time, status |-> "scheduled"]
        Say(kind) == [Outcome("book_appointment", kind) EXCEPT
                         !.date = pending[s].date, !.time = pending[s].time]
    IN
    /\ pending[s].op = "book"
    /\ pending' = [pending EXCEPT ![s] = Idle]
    /\ session_data' = TrackBooking(session_data, session_keys,
                           [id |-> Len(appts) + 1, date |-> pending[s].date,
                            time |-> pending[s].time])
    /\ IF UniqueOK(appts, 0, row)
       THEN /\ appts' = Append(appts, row)
            /\ last' = [Say("confirmed") EXCEPT !.ids = <<Len(appts) + 1>>]
       ELSE /\ last' = Say("error")
            /\ UNCHANGED appts
    /\ UNCHANGED <<users, today, now, session_keys, cancel_confirmed, teardown, dialogue>>

\* db.add(appointment); db.commit(): the INSERT meets unique_scheduled_slot
book_commit(s) ==
    LET row == [user_id |-> pending[s].uid, appointment_date |-> pending[s].date,
                appointment_time |-> pending[s].time, status |-> "scheduled"]
        Say(kind) == [Outcome("book_appointment", kind) EXCEPT
                         !.date = pending[s].date, !.time = pending[s].time]
    IN
    /\ pending[s].op = "book"
    /\ pending' = [pending EXCEPT ![s] = Idle]
    /\ IF UniqueOK(appts, 0, row)
       THEN /\ appts' = Append(appts, row)
            /\ session_data' = TrackBooking(session_data, session_keys,
                                   [id |-> Len(appts) + 1, date |-> pending[s].date,
                                    time |-> pending[s].time])
            /\ last' = [Say("confirmed") EXCEPT !.ids = <<Len(appts) + 1>>]
       ELSE /\ last' = Say("error")
            /\ UNCHANGED <<appts, session_data>>
    /\ UNCHANGED <<users, today, now, session_keys, cancel_confirmed, teardown, dialogue>>

\* the condition with > 2 for > 1
AsksWhich_MoreThanTwo(appointments, date_str) ==
    Len(appointments) > 2 /\ date_str = NoDate

\* len(appointments) > 1 and not date_str
AsksWhich(appointments, date_str) == Len(appointments) > 1 /\ date_str = NoDate

\* cancel_appointment up to its commit
cancel_appointment(s, ph, date_str) ==
    LET uid == UserByPhone(users, ph)
        parsed_date == IF date_str # NoDate THEN ParseDateCancel(date_str, today)
                       ELSE None
        base == UpcomingOf(appts, uid, today, now)
        matches == IF parsed_date # None
                   THEN {i \in base : appts[i].appointment_date = parsed_date}
                   ELSE base
        Say(kind) == Outcome("cancel_appointment", kind)
    IN
    /\ Ready(s)
    /\ IF uid = 0 THEN last' = Say("no_user") /\ UNCHANGED pending
       ELSE IF matches = {} THEN last' = Say("nothing") /\ UNCHANGED pending
       ELSE \E appointments \in OrderedByDate(appts, matches) :
                IF AsksWhich(appointments, date_str)
                THEN /\ last' = [Say("disambiguation") EXCEPT
                                    !.ids = Take(appointments, NearbyLimit),
                                    !.n = Len(appointments)]
                     /\ UNCHANGED pending
                ELSE /\ MayBegin
                     /\ pending' = [pending EXCEPT ![s] =
                            [Idle EXCEPT
                                !.op = "cancel", !.arg = date_str,
                                !.id = appointments[1],
                                !.date = appts[appointments[1]].appointment_date,
                                !.time = appts[appointments[1]].appointment_time]]
                     /\ UNCHANGED last
    /\ UNCHANGED <<users, appts, today, now, session_keys, session_data,
                   cancel_confirmed, teardown, dialogue>>

\* appointment.status = 'cancelled'; db.commit()
cancel_commit(s) ==
    LET id == pending[s].id
        row == [appts[id] EXCEPT !.status = "cancelled"]
        Say(kind) == [Outcome("cancel_appointment", kind) EXCEPT
                         !.ids = <<id>>, !.date = pending[s].date,
                         !.time = pending[s].time]
    IN
    /\ pending[s].op = "cancel"
    /\ pending' = [pending EXCEPT ![s] = Idle]
    /\ IF UniqueOK(appts, id, row)
       THEN /\ appts' = [appts EXCEPT ![id] = row]
            /\ cancel_confirmed' = cancel_confirmed \cup {id}
            /\ last' = Say("cancelled")
       ELSE /\ last' = Say(ErrorKind("cancel_appointment"))
            /\ UNCHANGED <<appts, cancel_confirmed>>
    /\ UNCHANGED <<users, today, now, session_keys, session_data, teardown, dialogue>>

\* the test without its comparison of ids
TakenByOther_AnyRow(existing, own) == existing # {}

\* modify_appointment: existing and existing.id != appointments[0].id
TakenByOther(existing, own) == existing # {} /\ existing # {own}

\* an attribute assigned the value it was loaded with is not written by the
\* flush: None (for a status, Unset) stands for "not written"
Dirty(loaded, new) == IF new # loaded THEN new ELSE None

\* modify_appointment up to its commit
modify_appointment(s, ph, new_date_str, new_time_str, old_date_str) ==
    LET uid == UserByPhone(users, ph)
        old_date == IF old_date_str # NoDate THEN ParseDateModifyOld(old_date_str)
                    ELSE None
        base == UpcomingOf(appts, uid, today, now)
        matches == IF old_date # None
                   THEN {i \in base : appts[i].appointment_date = old_date}
                   ELSE base
        new_date == ParseDateModifyNew(new_date_str, today)
        new_time == ParseTimeModify(new_time_str)
        existing == ScheduledAt(appts, new_date, new_time)
        Say(kind) == Outcome("modify_appointment", kind)
    IN
    /\ Ready(s)
    /\ IF uid = 0 THEN last' = Say("no_user") /\ UNCHANGED pending
       ELSE IF matches = {} THEN last' = Say("nothing") /\ UNCHANGED pending
       ELSE \E appointments \in OrderedByDate(appts, matches) :
                IF AsksWhich(appointments, old_date_str)
                THEN /\ last' = [Say("disambiguation") EXCEPT
                                    !.ids = Take(appointments, NearbyLimit),
                                    !.n = Len(appointments)]
                     /\ UNCHANGED pending
                ELSE IF new_date = None
                THEN last' = Say("bad_date") /\ UNCHANGED pending
                ELSE IF new_time = None
                THEN last' = Say("bad_time") /\ UNCHANGED pending
                ELSE IF TakenByOther(existing, appointments[1])
                THEN /\ last' = [Say("slot_taken") EXCEPT
                                    !.date = new_date, !.time = new_time]
                     /\ UNCHANGED pending
                ELSE /\ MayBegin
                     /\ pending' = [pending EXCEPT ![s] =
                            [Idle EXCEPT
                                !.op = "modify", !.arg = old_date_str,
                                !.id = appointments[1],
                                !.date = Dirty(appts[appointments[1]].appointment_date,
                                               new_date),
                                !.time = Dirty(appts[appointments[1]].appointment_time,
                                               new_time)]]
                     /\ UNCHANGED last
    /\ UNCHANGED <<users, appts, today, now, session_keys, session_data,
                   cancel_confirmed, teardown, dialogue>>

\* the UPDATE an ORM flush issues writes new where Dirty recorded it
Flushed(cur, new) == IF new # None THEN new ELSE cur

\* the reschedule done as cancel-and-rebook: the old row is cancelled and a
\* new one inserted
modify_commit_Recreate(s) ==
    LET id == pending[s].id
        row == [appts[id] EXCEPT
                   !.appointment_date = Flushed(@, pending[s].date),
                   !.appointment_time = Flushed(@, pending[s].time)]
    IN
    /\ pending[s].op = "modify"
    /\ pending' = [pending EXCEPT ![s] = Idle]
    /\ appts' = Append([appts EXCEPT ![id].status = "cancelled"], row)
    /\ last' = [Outcome("modify_appointment", "updated") EXCEPT
                   !.ids = <<Len(appts) + 1>>]
    /\ UNCHANGED <<users, today, now, session_keys, session_data, cancel_confirmed, teardown, dialogue>>

\* appointments[0].appointment_date = new_date; ...; db.commit()
modify_commit(s) ==
    LET id == pending[s].id
        row == [appts[id] EXCEPT
                   !.appointment_date = Flushed(@, pending[s].date),
                   !.appointment_time = Flushed(@, pending[s].time)]
        Say(kind) == [Outcome("modify_appointment", kind) EXCEPT !.ids = <<id>>]
    IN
    /\ pending[s].op = "modify"
    /\ pending' = [pending EXCEPT ![s] = Idle]
    /\ IF UniqueOK(appts, id, row)
       THEN appts' = [appts EXCEPT ![id] = row] /\ last' = Say("updated")
       ELSE last' = Say("error") /\ UNCHANGED appts
    /\ UNCHANGED <<users, today, now, session_keys, session_data, cancel_confirmed, teardown, dialogue>>

\* get_appointments: the "(and N more)" suffix, 0 when it is not appended
and_more(count) == IF count > ListLimit THEN count - ListLimit ELSE 0

get_appointments(s, ph) ==
    LET uid == UserByPhone(users, ph)
        appointments == OrderedByDateTime(appts, UpcomingOf(appts, uid, today, now))
        Say(kind) == Outcome("get_appointments", kind)
    IN
    /\ Ready(s)
    /\ IF uid = 0 THEN last' = Say("no_user")
       ELSE IF appointments = <<>> THEN last' = Say("none_upcoming")
       ELSE last' = [Say("listed") EXCEPT !.ids = Take(appointments, ListLimit),
                                           !.n = Len(appointments),
                                           !.more = and_more(Len(appointments))]
    /\ UNCHANGED <<users, appts, today, now, session_keys, session_data, pending,
                   cancel_confirmed, teardown, dialogue>>

(***************************************************************************)
(* REST appointment routes (one request in flight)                         *)
(***************************************************************************)
\* AppointmentService.check_slot_available
check_slot_available(as, d, t, exclude_id) == ScheduledAt(as, d, t) \ {exclude_id} = {}

Reply(kind) == Outcome("rest", kind)

\* POST /appointments/ up to the flush
rest_create_appointment(uid, d, t) ==
    /\ pending["rest"].op = "idle"
    /\ IF uid > Len(users) THEN last' = Reply("404") /\ UNCHANGED pending
       ELSE IF ~check_slot_available(appts, d, t, 0)
       THEN last' = Reply("409") /\ UNCHANGED pending
       ELSE /\ MayBegin
            /\ Len(appts) + PendingInserts < MaxAppts
            /\ pending' = [pending EXCEPT !["rest"] =
                              [Idle EXCEPT !.op = "rest_create", !.uid = uid,
                                           !.date = d, !.time = t]]
            /\ UNCHANGED last
    /\ UNCHANGED <<users, appts, today, now, session_keys, session_data,
                   cancel_confirmed, teardown, dialogue>>

\* AppointmentService.create_appointment: flush, then get_db's commit
rest_create_flush ==
    LET row == [user_id |-> pending["rest"].uid,
                appointment_date |-> pending["rest"].date,
                appointment_time |-> pending["rest"].time, status |-> "scheduled"]
    IN
    /\ pending["rest"].op = "rest_create"
    /\ pending' = [pending EXCEPT !["rest"] = Idle]
    /\ IF UniqueOK(appts, 0, row)
       THEN /\ appts' = Append(appts, row)
            /\ last' = Reply("201")
       ELSE last' = Reply("500") /\ UNCHANGED appts
    /\ UNCHANGED <<users, today, now, session_keys, session_data, cancel_confirmed, teardown, dialogue>>

\* PATCH /appointments/{id} up to the flush; None and Unset are fields the
\* request leaves out
rest_update_appointment(id, d, t, st) ==
    LET new_date == IF d # None THEN d ELSE appts[id].appointment_date
        new_time == IF t # None THEN t ELSE appts[id].appointment_time
    IN
    /\ pending["rest"].op = "idle"
    /\ IF id > Len(appts) THEN last' = Reply("404") /\ UNCHANGED pending
       ELSE IF /\ (new_date # appts[id].appointment_date
                   \/ new_time # appts[id].appointment_time)
               /\ ~check_slot_available(appts, new_date, new_time, id)
       THEN last' = Reply("409") /\ UNCHANGED pending
       ELSE /\ MayBegin
            /\ pending' = [pending EXCEPT !["rest"] =
                   [Idle EXCEPT
                       !.op = "rest_update", !.id = id,
                       !.date = Dirty(appts[id].appointment_date, new_date),
                       !.time = Dirty(appts[id].appointment_time, new_time),
                       !.status = IF st = appts[id].status THEN Unset ELSE st]]
            /\ UNCHANGED last
    /\ UNCHANGED <<users, appts, today, now, session_keys, session_data,
                   cancel_confirmed, teardown, dialogue>>

\* AppointmentService.update_appointment: setattr per field, flush, commit
rest_update_flush ==
    LET id == pending["rest"].id
        p == pending["rest"]
        row == [appts[id] EXCEPT
                   !.appointment_date = Flushed(@, p.date),
                   !.appointment_time = Flushed(@, p.time),
                   !.status = IF p.status # Unset THEN p.status ELSE @]
    IN
    /\ pending["rest"].op = "rest_update"
    /\ pending' = [pending EXCEPT !["rest"] = Idle]
    /\ IF UniqueOK(appts, id, row)
       THEN appts' = [appts EXCEPT ![id] = row]
            /\ last' = Reply("200")
       ELSE last' = Reply("500") /\ UNCHANGED appts
    /\ UNCHANGED <<users, today, now, session_keys, session_data, cancel_confirmed, teardown, dialogue>>

\* DELETE /appointments/{id} up to the flush
rest_cancel_appointment(id) ==
    /\ pending["rest"].op = "idle"
    /\ IF id > Len(appts) THEN last' = Reply("404") /\ UNCHANGED pending
       ELSE IF appts[id].status = "cancelled"
       THEN last' = Reply("400") /\ UNCHANGED pending
       ELSE /\ MayBegin
            /\ pending' = [pending EXCEPT !["rest"] =
                              [Idle EXCEPT !.op = "rest_cancel", !.id = id]]
            /\ UNCHANGED last
    /\ UNCHANGED <<users, appts, today, now, session_keys, session_data,
                   cancel_confirmed, teardown, dialogue>>

\* the cancellation done as a hard delete of the row
rest_cancel_flush_Delete ==
    LET id == pending["rest"].id
    IN
    /\ pending["rest"].op = "rest_cancel"
    /\ pending' = [pending EXCEPT !["rest"] = Idle]
    /\ appts' = SubSeq(appts, 1, id - 1) \o SubSeq(appts, id + 1, Len(appts))
    /\ last' = Reply("200")
    /\ UNCHANGED <<users, today, now, session_keys, session_data, cancel_confirmed, teardown, dialogue>>

\* AppointmentService.cancel_appointment: status = cancelled, flush, commit
rest_cancel_flush ==
    LET id == pending["rest"].id
        row == [appts[id] EXCEPT !.status = "cancelled"]
    IN
    /\ pending["rest"].op = "rest_cancel"
    /\ pending' = [pending EXCEPT !["rest"] = Idle]
    /\ IF UniqueOK(appts, id, row)
       THEN appts' = [appts EXCEPT ![id] = row]
            /\ last' = Reply("200")
       ELSE last' = Reply("500") /\ UNCHANGED appts
    /\ UNCHANGED <<users, today, now, session_keys, session_data, cancel_confirmed, teardown, dialogue>>

(***************************************************************************)
(* REST user routes                                                        *)
(***************************************************************************)
\* UserCreate: phone_number = Field(..., min_length=10, max_length=20)
UserCreateValid(ph) == MinPhoneLen <= PhoneLen(ph) /\ PhoneLen(ph) <= MaxPhoneLen

\* POST /users/ up to the flush
rest_create_user(ph, name) ==
    /\ pending["rest"].op = "idle"
    /\ IF ~UserCreateValid(ph) THEN last' = Reply("422") /\ UNCHANGED pending
       ELSE IF UserByPhone(users, ph) # 0
       THEN last' = Reply("400") /\ UNCHANGED pending
       ELSE /\ MayBegin
            /\ pending' = [pending EXCEPT !["rest"] =
                              [Idle EXCEPT !.op = "rest_create_user", !.phone = ph,
                                           !.name = name]]
            /\ UNCHANGED last
    /\ UNCHANGED <<users, appts, today, now, session_keys, session_data,
                   cancel_confirmed, teardown, dialogue>>

\* UserService.create_user: flush, then get_db's commit
rest_create_user_flush ==
    /\ pending["rest"].op = "rest_create_user"
    /\ pending' = [pending EXCEPT !["rest"] = Idle]
    /\ IF PhoneFree(users, pending["rest"].phone)
       THEN /\ users' = Append(users, [phone_number |-> pending["rest"].phone,
                                        name |-> pending["rest"].name])
            /\ last' = Reply("201")
       ELSE last' = Reply("500") /\ UNCHANGED users
    /\ UNCHANGED <<appts, today, now, session_keys, session_data,
                   cancel_confirmed, teardown, dialogue>>

\* AVAILABLE_SLOTS of the appointment service
AVAILABLE_SLOTS == <<T(9, 0), T(10, 0), T(11, 0), T(14, 0), T(15, 0), T(16, 0)>>

\* an AvailableSlot(date, time), as minutes since the start of day 0
At(d, t) == d * (24 * 60) + t
DateOf(x) == x \div (24 * 60)
TimeOf(x) == x % (24 * 60)

\* GET /appointments/slots: AppointmentService.get_available_slots walks the
\* next days_ahead days, skips Saturday and Sunday, and keeps each of
\* AVAILABLE_SLOTS that no scheduled row holds
rest_get_available_slots(days_ahead) ==
    LET per_day == Len(AVAILABLE_SLOTS)
        walked == [k \in 1..(days_ahead * per_day) |->
                      At(today + ((k - 1) \div per_day),
                         AVAILABLE_SLOTS[((k - 1) % per_day) + 1])]
        available == SelectSeq(walked,
                         LAMBDA x : /\ WeekdayOf(DateOf(x)) < 5
                                    /\ ScheduledAt(appts, DateOf(x), TimeOf(x)) = {})
    IN
    /\ last' = [Outcome("rest_slots", "200") EXCEPT
                   !.slots = available, !.date = today, !.n = days_ahead]
    /\ UNCHANGED <<users, appts, today, now, session_keys, session_data, pending,
                   cancel_confirmed, teardown, dialogue>>

\* POST /users/identify up to the flush: the user found by phone number gets
\* the request's name only when it has none; without a user one is created
rest_identify_or_create_user(ph, name) ==
    LET uid == UserByPhone(users, ph) IN
    /\ pending["rest"].op = "idle"
    /\ IF ~UserCreateValid(ph) THEN last' = Reply("422") /\ UNCHANGED pending
       ELSE IF uid # 0 /\ ~(name # "none" /\ users[uid].name = "none")
       THEN last' = Reply("200") /\ UNCHANGED pending
       ELSE /\ MayBegin
            /\ pending' = [pending EXCEPT !["rest"] =
                              [Idle EXCEPT !.op = IF uid # 0 THEN "rest_identify_name"
                                                  ELSE "rest_identify_create",
                                           !.uid = uid, !.phone = ph, !.name = name]]
            /\ UNCHANGED last
    /\ UNCHANGED <<users, appts, today, now, session_keys, session_data,
                   cancel_confirmed, teardown, dialogue>>

\* UserService.identify_or_create_user: flush of the name or of the new row,
\* then get_db's commit
rest_identify_flush ==
    /\ pending["rest"].op \in {"rest_identify_name", "rest_identify_create"}
    /\ pending' = [pending EXCEPT !["rest"] = Idle]
    /\ IF pending["rest"].op = "rest_identify_name"
       THEN /\ users' = [users EXCEPT ![pending["rest"].uid].name = pending["rest"].name]
            /\ last' = Reply("200")
       ELSE IF PhoneFree(users, pending["rest"].phone)
       THEN /\ users' = Append(users, [phone_number |-> pending["rest"].phone,
                                        name |-> pending["rest"].name])
            /\ last' = Reply("200")
       ELSE last' = Reply("500") /\ UNCHANGED users
    /\ UNCHANGED <<appts, today, now, session_keys, session_data,
                   cancel_confirmed, teardown, dialogue>>

(***************************************************************************)
(* Call teardown.  A text is the sequence of its parts; the empty text is  *)
(* the empty sequence.                                                     *)
(***************************************************************************)
Part(label, str, n) == [label |-> label, str |-> str, n |-> n]

Fixed(label) == <<Part(label, "", 0)>>

\* what chat.completions.create can do: answer with a text, answer with
\* empty content, or raise
GenOutcomes == {"text", "empty", "raises"}

\* the session_id argument: the service is free to pass any string
SessionArgs == Sessions \cup {"guess"}

\* session_data.get(session_id, {})
DataOf(sid) == IF Started(sid) THEN session_data[sid] ELSE NoData

\* the except branch: " | ".join(summary_parts), or "No actions taken."
StructuredSummary(data) ==
    LET summary_parts ==
            (IF data.user_name # "none"
             THEN <<Part("User", data.user_name, 0)>> ELSE <<>>)
            \o (IF data.user_phone # "none"
                THEN <<Part("Phone", data.user_phone, 0)>> ELSE <<>>)
            \o (IF data.appointments_booked # <<>>
                THEN <<Part("Booked", "", Len(data.appointments_booked))>>
                ELSE <<>>)
    IN IF summary_parts # <<>> THEN summary_parts ELSE Fixed("No actions taken.")

\* response.choices[0].message.content without its default
ContentOrDefault_Bare(content) == content

\* response.choices[0].message.content or "Call completed."
ContentOrDefault(content) ==
    IF content # <<>> THEN content ELSE Fixed("Call completed.")

\* summary_text of end_conversation
SummaryText(data, gen) ==
    IF data.conversation_history = <<>> THEN Fixed("Call ended.")
    ELSE CASE gen = "text" -> ContentOrDefault(Fixed("ai"))
           [] gen = "empty" -> ContentOrDefault(<<>>)
           [] OTHER -> StructuredSummary(data)

\* a turn's text: its first 50 characters and the rest (empty for a text
\* of up to 50 characters)
Utter(head, tail) == [head |-> head, tail |-> tail]

\* what the caller says
UserSaid == Utter("caller", "")

\* what the agent may say: a greeting, and two statements of the caller's
\* appointments that begin alike and differ after the 50th character
AgentSays == {Utter("hello", ""), Utter("appointments", "a"),
              Utter("appointments", "b")}

\* hash(content[:50]) if len(content) > 50 else hash(content)
content_hash(content) == content.head

Turn(role, content) == [role |-> role, content |-> content]

\* on_user_input_transcribed with a final transcript
on_user_input_transcribed(s) ==
    /\ Started(s) /\ s \notin shutdown
    /\ Len(session_data[s].conversation_history) < MaxTurns
    /\ session_data' = [session_data EXCEPT ![s].conversation_history =
                            Append(@, Turn("user", UserSaid))]
    /\ turns' = [turns EXCEPT ![s] = Append(@, Turn("user", UserSaid))]
    /\ UNCHANGED <<users, appts, today, now, session_keys, pending, last,
                   cancel_confirmed, teardown, sent_messages, events>>

\* the agent speaks: the session emits agent_speech_committed and
\* conversation_item_added for the turn, handled in either order
agent_turn(s, content) ==
    /\ Started(s) /\ s \notin shutdown
    /\ events[s] = {}
    /\ Len(turns[s]) < MaxSpoken
    /\ turns' = [turns EXCEPT ![s] = Append(@, Turn("assistant", content))]
    /\ events' = [events EXCEPT ![s] =
                      {[name |-> "agent_speech_committed", content |-> content],
                       [name |-> "conversation_item_added", content |-> content]}]
    /\ UNCHANGED <<users, appts, today, now, session_keys, session_data, pending,
                   last, cancel_confirmed, teardown, sent_messages>>

\* on_agent_speech_committed: a text whose hash was sent before is dropped,
\* any other is recorded in the history
on_agent_speech_committed(s) ==
    \E e \in events[s] :
        /\ e.name = "agent_speech_committed"
        /\ events' = [events EXCEPT ![s] = @ \ {e}]
        /\ IF content_hash(e.content) \in sent_messages[s]
           THEN UNCHANGED <<sent_messages, session_data>>
           ELSE /\ sent_messages' = [sent_messages EXCEPT ![s] =
                                         @ \cup {content_hash(e.content)}]
                /\ session_data' = [session_data EXCEPT ![s].conversation_history =
                                        Append(@, Turn("assistant", e.content))]
        /\ UNCHANGED <<users, appts, today, now, session_keys, pending, last,
                       cancel_confirmed, teardown, turns>>

\* on_conversation_item_added for an assistant item: the hash is recorded,
\* the history is not written
on_conversation_item_added(s) ==
    \E e \in events[s] :
        /\ e.name = "conversation_item_added"
        /\ events' = [events EXCEPT ![s] = @ \ {e}]
        /\ sent_messages' = [sent_messages EXCEPT ![s] =
                                 @ \cup {content_hash(e.content)}]
        /\ UNCHANGED <<users, appts, today, now, session_keys, session_data,
                       pending, last, cancel_confirmed, teardown, turns>>

\* end_conversation: the summary is generated, saved (a failure to save is
\* logged and dropped) and returned
end_conversation(s, session_id, gen, store_ok) ==
    LET data == DataOf(session_id)
        summary_text == SummaryText(data, gen)
    IN
    /\ Ready(s)
    /\ Len(summaries) < MaxSummaries
    /\ summaries' = IF store_ok
                    THEN Append(summaries,
                                [user_id |-> data.user_id, session_id |-> session_id,
                                 summary |-> summary_text,
                                 appointments_booked |-> data.appointments_booked])
                    ELSE summaries
    /\ end_invoked' = end_invoked \cup {s}
    /\ last' = [Outcome("end_conversation", "summary") EXCEPT !.text = summary_text]
    /\ UNCHANGED <<users, appts, today, now, session_keys, session_data, pending,
                   cancel_confirmed, shutdown, dialogue>>

\* end_conversation up to its await of chat.completions.create, which it
\* reaches when the transcript is not empty; the session_id argument is
\* kept in .name of the pending record
end_conversation_begin(s, session_id) ==
    /\ Ready(s)
    /\ Len(summaries) < MaxSummaries
    /\ DataOf(session_id).conversation_history # <<>>
    /\ pending' = [pending EXCEPT ![s] =
                      [Idle EXCEPT !.op = "end_conversation", !.name = session_id]]
    /\ end_invoked' = end_invoked \cup {s}
    /\ UNCHANGED <<users, appts, today, now, session_keys, session_data, last,
                   cancel_confirmed, summaries, shutdown, dialogue>>

\* end_conversation from the end of the await: the summary is chosen, saved
\* (a failure to save is logged and dropped) and returned
end_conversation_resume(s, gen, store_ok) ==
    LET session_id == pending[s].name
        data == DataOf(session_id)
        summary_text == SummaryText(data, gen)
    IN
    /\ pending[s].op = "end_conversation"
    /\ pending' = [pending EXCEPT ![s] = Idle]
    /\ summaries' = IF store_ok
                    THEN Append(summaries,
                                [user_id |-> data.user_id, session_id |-> session_id,
                                 summary |-> summary_text,
                                 appointments_booked |-> data.appointments_booked])
                    ELSE summaries
    /\ last' = [Outcome("end_conversation", "summary") EXCEPT !.text = summary_text]
    /\ UNCHANGED <<users, appts, today, now, session_keys, session_data,
                   cancel_confirmed, end_invoked, shutdown, dialogue>>

\* the generator answers the request or fails it; it need not do either
generator_responds(s, gen, store_ok) == end_conversation_resume(s, gen, store_ok)

\* the request gets no answer: the client, built with its default request
\* timeout, gives up and raises inside the try block
request_timeout_Disabled(s, store_ok) == FALSE

request_timeout(s, store_ok) == end_conversation_resume(s, "raises", store_ok)

\* the room disconnects or the job shuts down: shutdown_event is set and
\* entrypoint returns
Disconnect(s) ==
    /\ Started(s) /\ s \notin shutdown
    /\ shutdown' = shutdown \cup {s}
    /\ UNCHANGED <<users, appts, today, now, session_keys, session_data, pending,
                   last, cancel_confirmed, summaries, end_invoked, dialogue>>

(***************************************************************************)
(* Specifications.  Each composes the same operations over a scope: which  *)
(* workers run, and the phrases and values they are called with.           *)
(***************************************************************************)
Row(ph, name) == [phone_number |-> ph, name |-> name]

Blank ==
    /\ pending = [p \in Procs |-> Idle]
    /\ last = Outcome("none", "none")
    /\ cancel_confirmed = {}
    /\ summaries = <<>> /\ end_invoked = {} /\ shutdown = {}
    /\ sent_messages = [s \in Sessions |-> {}]
    /\ turns = [s \in Sessions |-> <<>>]
    /\ events = [s \in Sessions |-> {}]
    /\ session_data = [s \in Sessions |-> NoData]
    /\ today = 0
    /\ now = NowPoints[1]

SlotTimes == {Bare(10, "am"), Bare(2, "pm")}
RestTimes == {T(10, 0), T(14, 0)}
BothUsers == <<Row("p1", "Sarah"), Row("p2", "Sarah")>>

\* Spec: two calls in progress over a store that knows both callers; their
\* booking, cancelling and rescheduling tools interleave.
Init ==
    /\ Blank
    /\ users = BothUsers
    /\ appts = <<>>
    /\ session_keys = <<"s1", "s2">>

Next ==
    \/ \E s \in Sessions, ph \in Phones, t \in SlotTimes :
           book_appointment(s, ph, Tomorrow, t)
    \/ \E s \in Sessions : book_commit(s)
    \/ \E s \in Sessions, ph \in Phones : cancel_appointment(s, ph, NoDate)
    \/ \E s \in Sessions : cancel_commit(s)
    \/ \E s \in Sessions, ph \in Phones, t \in SlotTimes :
           modify_appointment(s, ph, Tomorrow, t, NoDate)
    \/ \E s \in Sessions : modify_commit(s)

Spec == Init /\ [][Next]_vars

\* SpecStore: every operation that writes appointments, interleaved: the
\* tools of two calls (both for caller p1) and the REST routes.
NextStore ==
    \/ \E s \in Sessions, t \in SlotTimes : book_appointment(s, "p1", Tomorrow, t)
    \/ \E s \in Sessions : book_commit(s)
    \/ \E s \in Sessions : cancel_appointment(s, "p1", NoDate)
    \/ \E s \in Sessions : cancel_commit(s)
    \/ \E s \in Sessions, t \in SlotTimes :
           modify_appointment(s, "p1", Tomorrow, t, NoDate)
    \/ \E s \in Sessions : modify_commit(s)
    \/ \E t \in RestTimes : rest_create_appointment(2, 1, t)
    \/ rest_create_flush
    \/ \E id \in 1..MaxAppts, t \in RestTimes \cup {None},
          st \in {Unset, "scheduled", "cancelled"} :
           rest_update_appointment(id, None, t, st)
    \/ rest_update_flush
    \/ \E id \in 1..MaxAppts : rest_cancel_appointment(id)
    \/ rest_cancel_flush

SpecStore == Init /\ [][NextStore]_vars

\* SpecCall: one call in progress while the clock moves on.  Either caller
\* books; caller p1 cancels and reschedules with every kind of date filter.
CancelDates == {NoDate, Today, Tomorrow, Garbage}
OldDates == {NoDate, Iso(1), Today}

InitCall ==
    /\ Blank
    /\ users = BothUsers
    /\ appts = <<>>
    /\ session_keys = <<"s1">>

NextCall ==
    \/ Tick
    \/ \E ph \in Phones, t \in SlotTimes : book_appointment("s1", ph, Tomorrow, t)
    \/ book_commit("s1")
    \/ \E d \in CancelDates : cancel_appointment("s1", "p1", d)
    \/ cancel_commit("s1")
    \/ \E t \in SlotTimes, old \in OldDates :
           modify_appointment("s1", "p1", Tomorrow, t, old)
    \/ modify_commit("s1")

SpecCall == InitCall /\ [][NextCall]_vars

\* SpecAvail: one call asking for availability while the clock moves on and
\* bookings for today and tomorrow come and go.
AvailDates == {NoDate, Today, Iso(0), Tomorrow, Garbage}

NextAvail ==
    \/ Tick
    \/ \E d \in {Today, Tomorrow}, t \in SlotTimes :
           book_appointment("s1", "p1", d, t)
    \/ book_commit("s1")
    \/ cancel_appointment("s1", "p1", NoDate)
    \/ cancel_commit("s1")
    \/ \E arg \in AvailDates : get_availability("s1", arg)

SpecAvail == InitCall /\ [][NextAvail]_vars

\* SpecPatch: one call booking, cancelling and listing for caller p1 while the
\* REST API patches and cancels appointments.
NextPatch ==
    \/ \E t \in SlotTimes : book_appointment("s1", "p1", Tomorrow, t)
    \/ book_commit("s1")
    \/ cancel_appointment("s1", "p1", NoDate)
    \/ cancel_commit("s1")
    \/ get_appointments("s1", "p1")
    \/ \E id \in 1..MaxAppts, t \in RestTimes \cup {None},
          st \in {Unset, "scheduled", "cancelled"} :
           rest_update_appointment(id, None, t, st)
    \/ rest_update_flush
    \/ \E id \in 1..MaxAppts : rest_cancel_appointment(id)
    \/ rest_cancel_flush

SpecPatch == InitCall /\ [][NextPatch]_vars

\* SpecSession: calls start and run any tool, identified or not, over a
\* store that knows caller p1.
InitSession ==
    /\ Blank
    /\ users = <<Row("p1", "Sarah")>>
    /\ appts = <<>>
    /\ session_keys = <<>>

NextSession ==
    \/ \E s \in Sessions : Entrypoint(s)
    \/ \E s \in Sessions, ph \in Phones : identify_user(s, ph)
    \/ \E s \in Sessions : create_user(s, "p2", "Sarah")
    \/ \E s \in Sessions : create_user_commit(s)
    \/ \E s \in Sessions, ph \in Phones :
           book_appointment(s, ph, Tomorrow, Bare(10, "am"))
    \/ \E s \in Sessions : book_commit(s)
    \/ \E s \in Sessions, ph \in Phones : cancel_appointment(s, ph, NoDate)
    \/ \E s \in Sessions : cancel_commit(s)
    \/ \E s \in Sessions, ph \in Phones :
           modify_appointment(s, ph, Tomorrow, Bare(2, "pm"), NoDate)
    \/ \E s \in Sessions : modify_commit(s)
    \/ \E s \in Sessions, ph \in Phones : get_appointments(s, ph)

SpecSession == InitSession /\ [][NextSession]_vars

\* SpecE2E: a first-time caller p1 goes through identification, account
\* creation, booking "tomorrow" at "2pm" and listing, each tool called once
\* the one before it has answered.  The store may already hold another
\* caller and an appointment of theirs anywhere but scheduled tomorrow 14:00.
OtherRows ==
    {r \in [user_id : {1}, appointment_date : 0..2,
            appointment_time : RestTimes, status : {"scheduled", "cancelled"}] :
        ~(r.appointment_date = 1 /\ r.appointment_time = T(14, 0)
          /\ r.status = "scheduled")}

InitE2E ==
    /\ pending = [p \in Procs |-> Idle]
    /\ last = Outcome("none", "none")
    /\ cancel_confirmed = {}
    /\ summaries = <<>> /\ end_invoked = {} /\ shutdown = {}
    /\ sent_messages = [s \in Sessions |-> {}]
    /\ turns = [s \in Sessions |-> <<>>]
    /\ events = [s \in Sessions |-> {}]
    /\ session_data = [s \in Sessions |-> NoData]
    /\ today = 0
    /\ now \in {NowPoints[k] : k \in 1..Len(NowPoints)}
    /\ session_keys = <<"s1">>
    /\ \/ users = <<>> /\ appts = <<>>
       \/ users = <<Row("p2", "Sarah")>> /\ appts = <<>>
       \/ users = <<Row("p2", "Sarah")>> /\ \E r \in OtherRows : appts = <<r>>

After(tool, kind) == last.tool = tool /\ last.kind = kind

NextE2E ==
    \/ After("none", "none") /\ identify_user("s1", "p1")
    \/ After("identify_user", "new_user") /\ create_user("s1", "p1", "Sarah")
    \/ create_user_commit("s1")
    \/ After("create_user", "created")
          /\ book_appointment("s1", "p1", Tomorrow, Bare(2, "pm"))
    \/ book_commit("s1")
    \/ After("book_appointment", "confirmed") /\ get_appointments("s1", "p1")

SpecE2E == InitE2E /\ [][NextE2E]_vars

\* SpecPhone: one call and the REST API register callers under phone
\* numbers of every length.
InitPhone ==
    /\ Blank
    /\ users = <<>>
    /\ appts = <<>>
    /\ session_keys = <<"s1">>

NextPhone ==
    \/ \E ph \in AllPhones : identify_user("s1", ph)
    \/ \E ph \in AllPhones : create_user("s1", ph, "Sarah")
    \/ create_user_commit("s1")
    \/ \E ph \in AllPhones : rest_create_user(ph, "Sarah")
    \/ rest_create_user_flush

SpecPhone == InitPhone /\ [][NextPhone]_vars

\* SpecEnd: one call of known caller p1 from its start to its teardown: the
\* caller speaks, is identified, books, and the call ends by end_conversation
\* (any number of times, under any session_id) or by a disconnect.
InitEnd ==
    /\ Blank
    /\ users = <<Row("p1", "Sarah")>>
    /\ appts = <<>>
    /\ session_keys = <<>>

NextEnd ==
    \/ Entrypoint("s1")
    \/ on_user_input_transcribed("s1")
    \/ identify_user("s1", "p1")
    \/ book_appointment("s1", "p1", Tomorrow, Bare(10, "am"))
    \/ book_commit("s1")
    \/ \E session_id \in SessionArgs, gen \in GenOutcomes, store_ok \in BOOLEAN :
           end_conversation("s1", session_id, gen, store_ok)
    \/ Disconnect("s1")

SpecEnd == InitEnd /\ [][NextEnd]_vars

\* SpecFail: one call whose store may fail under any tool, beside a REST
\* client that registers the same new caller.
InitFail ==
    /\ Blank
    /\ users = <<Row("p1", "Sarah")>>
    /\ appts = <<>>
    /\ session_keys = <<"s1">>

NextFail ==
    \/ \E tool \in Tools : store_failure("s1", tool)
    \/ \E ph \in Phones : identify_user("s1", ph)
    \/ create_user("s1", "p2", "Sarah")
    \/ create_user_commit("s1")
    \/ rest_create_user("p2", "Sarah")
    \/ rest_create_user_flush
    \/ book_appointment("s1", "p1", Tomorrow, Bare(10, "am"))
    \/ book_commit("s1")
    \/ on_user_input_transcribed("s1")
    \/ \E gen \in GenOutcomes, store_ok \in BOOLEAN :
           end_conversation("s1", "s1", gen, store_ok)

SpecFail == InitFail /\ [][NextFail]_vars

\* SpecPast: one call of caller p1 while the clock runs past the
\* appointments: they are booked for today and tomorrow, then looked up,
\* listed, cancelled and rescheduled before and after their start.
NextPast ==
    \/ Tick
    \/ \E d \in {Today, Tomorrow} : book_appointment("s1", "p1", d, Bare(10, "am"))
    \/ book_commit("s1")
    \/ identify_user("s1", "p1")
    \/ get_appointments("s1", "p1")
    \/ \E d \in {NoDate, Today} : cancel_appointment("s1", "p1", d)
    \/ cancel_commit("s1")
    \/ \E old \in {NoDate, Iso(0)} :
           modify_appointment("s1", "p1", Tomorrow, Bare(2, "pm"), old)
    \/ modify_commit("s1")

SpecPast == InitCall /\ [][NextPast]_vars

\* SpecMove: caller p1 books and reschedules in one call while the REST API
\* books for caller p2 and moves or cancels any appointment.
NextMove ==
    \/ \E t \in SlotTimes : book_appointment("s1", "p1", Tomorrow, t)
    \/ book_commit("s1")
    \/ \E t \in SlotTimes : modify_appointment("s1", "p1", Tomorrow, t, NoDate)
    \/ modify_commit("s1")
    \/ \E t \in RestTimes : rest_create_appointment(2, 1, t)
    \/ rest_create_flush
    \/ \E id \in 1..MaxAppts, t \in RestTimes, st \in {Unset, "cancelled"} :
           rest_update_appointment(id, None, t, st)
    \/ rest_update_flush

SpecMove == InitCall /\ [][NextMove]_vars

\* SpecHours: one call books for caller p1 at times around the edges of the
\* business day, said on the hour and with minutes.
HourPhrases == {Bare(8, "am"), Colon(8, 30, "am"), Bare(9, "am"), Bare(4, "pm"),
                Colon(4, 30, "pm"), Bare(5, "pm"), Colon(16, 0, ""), BadTime}

NextHours ==
    \/ \E d \in {Today, Tomorrow}, t \in HourPhrases :
           book_appointment("s1", "p1", d, t)
    \/ book_commit("s1")

SpecHours == InitCall /\ [][NextHours]_vars

\* SpecTalk: one call of known caller p1 in which caller and agent speak
\* between the tool calls; what the agent says is up to the language model.
NextTalk ==
    \/ on_user_input_transcribed("s1")
    \/ \E content \in AgentSays : agent_turn("s1", content)
    \/ on_agent_speech_committed("s1")
    \/ on_conversation_item_added("s1")
    \/ identify_user("s1", "p1")
    \/ book_appointment("s1", "p1", Tomorrow, Bare(10, "am"))
    \/ book_commit("s1")
    \/ cancel_appointment("s1", "p1", NoDate)
    \/ cancel_commit("s1")
    \/ get_appointments("s1", "p1")

SpecTalk == InitFail /\ [][NextTalk]_vars

\* SpecWeek: a call on any day of the first week and beyond asks for
\* availability and books by weekday name.
InitWeek ==
    /\ pending = [p \in Procs |-> Idle]
    /\ last = Outcome("none", "none")
    /\ cancel_confirmed = {}
    /\ summaries = <<>> /\ end_invoked = {} /\ shutdown = {}
    /\ sent_messages = [s \in Sessions |-> {}]
    /\ turns = [s \in Sessions |-> <<>>]
    /\ events = [s \in Sessions |-> {}]
    /\ session_data = [s \in Sessions |-> NoData]
    /\ today \in 0..LastRefDay
    /\ now = NowPoints[1]
    /\ users = <<Row("p1", "Sarah")>>
    /\ appts = <<>>
    /\ session_keys = <<"s1">>

NextWeek ==
    \/ \E i \in 0..6 : get_availability("s1", Weekday(i))
    \/ \E i \in 0..6 : book_appointment("s1", "p1", Weekday(i), Bare(10, "am"))
    \/ book_commit("s1")

SpecWeek == InitWeek /\ [][NextWeek]_vars

\* SpecYear: one call on 1 January in which caller p1 names dates by month
\* and day: the day after, the leap day, and a day no February has.
MonthDays == {MonthDay(1, 2), MonthDay(2, 29), MonthDay(2, 30)}

NextYear ==
    \/ \E d \in MonthDays : get_availability("s1", d)
    \/ \E d \in MonthDays : book_appointment("s1", "p1", d, Bare(10, "am"))
    \/ book_appointment("s1", "p1", Tomorrow, Bare(2, "pm"))
    \/ book_commit("s1")
    \/ \E d \in MonthDays : cancel_appointment("s1", "p1", d)
    \/ cancel_commit("s1")
    \/ \E d \in MonthDays : modify_appointment("s1", "p1", d, Bare(10, "am"), NoDate)
    \/ modify_commit("s1")

SpecYear == InitCall /\ [][NextYear]_vars

\* SpecClock: one call books for tomorrow at every bare hour a caller may
\* say, with and without am/pm.
NextClock ==
    \/ \E h \in 0..MaxHourSaid, mer \in {"", "am", "pm"} :
           book_appointment("s1", "p1", Tomorrow, Bare(h, mer))
    \/ book_commit("s1")

SpecClock == InitCall /\ [][NextClock]_vars

(***************************************************************************)
(* Properties                                                              *)
(***************************************************************************)
\* distinct rows i and j are both scheduled at one date and time
DoubleBooked(i, j) ==
    /\ i # j
    /\ appts[i].status = "scheduled" /\ appts[j].status = "scheduled"
    /\ appts[i].appointment_date = appts[j].appointment_date
    /\ appts[i].appointment_time = appts[j].appointment_time

\* C1: in every reachable state, whatever the interleaving of the tools'
\* and the REST routes' reads and commits, no two scheduled appointments
\* share a date and time, whoever owns them.
C1_OneScheduledPerSlot == \A i, j \in 1..Len(appts) : ~DoubleBooked(i, j)

\* a booking tool lost a race against a REST-created appointment of another
\* user: its INSERT was refused and that user's row holds the slot
C1_Witness ==
    /\ last.tool = "book_appointment" /\ last.kind = "error"
    /\ \E i \in 1..Len(appts) :
           /\ appts[i].user_id = 2 /\ appts[i].status = "scheduled"
           /\ appts[i].appointment_date = last.date
           /\ appts[i].appointment_time = last.time

\* C2: when two calls book the same date and time and both pass the
\* availability check before either commits, the call that commits second
\* returns the slot-taken outcome (stated for the commit that directly
\* follows the other call's confirmation for that slot).
C2_RaceLoserGetsConflict ==
    [][\A s \in Sessions :
          (/\ pending[s].op = "book" /\ pending'[s].op = "idle"
           /\ last.tool = "book_appointment" /\ last.kind = "confirmed"
           /\ last.date = pending[s].date /\ last.time = pending[s].time)
          => (last'.tool = "book_appointment" /\ last'.kind = "slot_taken")]_vars

\* the time of day a caller means by "10am", "2pm"
ClockTime(p) == T(IF p.mer = "pm" /\ p.h < 12 THEN p.h + 12 ELSE p.h, p.m)

\* a booking the tool confirmed (its session log holds it) is still scheduled
\* at date d, time t
BookedAndHeld(d, t) ==
    \E i \in 1..Len(appts) :
        /\ appts[i].status = "scheduled"
        /\ appts[i].appointment_date = d /\ appts[i].appointment_time = t
        /\ \E s \in Sessions :
               \E k \in 1..Len(session_data[s].appointments_booked) :
                   session_data[s].appointments_booked[k].id = i

\* C3: once book_appointment has confirmed (d, t) and that appointment is
\* still scheduled, a later book_appointment for (d, t), by any user, returns
\* the slot-taken outcome for (d, t), inserts nothing and leaves no insert
\* pending.
C3_SecondBookingConflicts ==
    [][\A s \in Sessions, ph \in Phones, t \in SlotTimes :
          (book_appointment(s, ph, Tomorrow, t)
           /\ BookedAndHeld(today + 1, ClockTime(t)))
          => (/\ last'.tool = "book_appointment" /\ last'.kind = "slot_taken"
              /\ last'.date = today + 1 /\ last'.time = ClockTime(t)
              /\ appts' = appts /\ pending' = pending)]_vars

\* a booking was refused as taken while the confirmed booking holds the slot
C3_Witness ==
    /\ last.tool = "book_appointment" /\ last.kind = "slot_taken"
    /\ BookedAndHeld(last.date, last.time)
    /\ Len(appts) = 1

\* C4: once cancel_appointment has confirmed the cancellation of an
\* appointment, no later get_appointments result lists it, whatever happened
\* in between.
C4_CancelledNeverListed ==
    last.tool = "get_appointments"
    => \A k \in 1..Len(last.ids) : last.ids[k] \notin cancel_confirmed

\* the upcoming scheduled appointments of user uid
OwnUpcoming(uid) ==
    {i \in 1..Len(appts) :
        /\ appts[i].user_id = uid /\ appts[i].status = "scheduled"
        /\ \/ appts[i].appointment_date > today
           \/ appts[i].appointment_date = today /\ appts[i].appointment_time > now}

Elements(q) == {q[k] : k \in 1..Len(q)}

\* C5: cancel_appointment with no date filter, for a user (p1, user 1) with
\* two or more upcoming scheduled appointments, returns a disambiguation
\* that lists them (both, when there are two), changes no appointment and
\* leaves no cancellation pending.
C5_CancelAsksWhich ==
    [][\A s \in Sessions :
          (cancel_appointment(s, "p1", NoDate) /\ Cardinality(OwnUpcoming(1)) >= 2)
          => (/\ last'.tool = "cancel_appointment" /\ last'.kind = "disambiguation"
              /\ last'.n = Cardinality(OwnUpcoming(1))
              /\ Elements(last'.ids) \subseteq OwnUpcoming(1)
              /\ Len(last'.ids) >= 2
              /\ Cardinality(OwnUpcoming(1)) = 2
                    => Elements(last'.ids) = OwnUpcoming(1)
              /\ appts' = appts /\ pending' = pending)]_vars

\* the tool asked which of two appointments, both still scheduled
C5_Witness ==
    /\ last.tool = "cancel_appointment" /\ last.kind = "disambiguation"
    /\ Len(last.ids) = 2 /\ last.ids[1] # last.ids[2]
    /\ \A k \in 1..2 : appts[last.ids[k]].status = "scheduled"

\* the day a date phrase names (no day for a phrase that names none)
SaidDay(p) ==
    CASE p.kind = "today" -> today
      [] p.kind = "tomorrow" -> today + 1
      [] p.kind = "iso" -> p.day
      [] OTHER -> 0 - 1

\* the upcoming scheduled appointments of user uid that match a date filter
Matching(uid, filter) ==
    IF filter = NoDate THEN OwnUpcoming(uid)
    ELSE {i \in OwnUpcoming(uid) : appts[i].appointment_date = SaidDay(filter)}

\* a commit of cancel_appointment or modify_appointment writes one row only
OnlyTargetWritten(s) ==
    (pending[s].op \in {"cancel", "modify"} /\ pending'[s].op = "idle")
    => /\ Len(appts') = Len(appts)
       /\ \A i \in 1..Len(appts) : i # pending[s].id => appts'[i] = appts[i]

\* a call of tool op in session s picks its target in this step
Picks(s, op) == pending[s].op = "idle" /\ pending'[s].op = op

C7_SingleMatchIsCancelled ==
    [][\A s \in Sessions :
          (/\ pending[s].op = "cancel" /\ pending'[s].op = "idle"
           /\ Matching(1, pending[s].arg) = {pending[s].id})
          => (/\ appts'[pending[s].id].status = "cancelled"
              /\ last'.tool = "cancel_appointment" /\ last'.kind = "cancelled"
              /\ last'.date = appts[pending[s].id].appointment_date
              /\ last'.time = appts[pending[s].id].appointment_time)]_vars

\* C8: every time get_availability lists for the current date, asked for by
\* name, by date or through the overview, is strictly later than the time
\* of day of the call.
C8_TodayOnlyFuture ==
    (last.tool = "get_availability" /\ last.date = last.today)
    => \A k \in 1..Len(last.slots) : last.slots[k] > last.now

\* asked at 10:00 sharp with no appointment in the store, the list for today
\* starts at 11:00
C8_Witness ==
    /\ last.tool = "get_availability" /\ last.kind \in {"slots", "overview"}
    /\ last.date = last.today /\ last.now = T(10, 0)
    /\ last.slots # <<>> /\ last.slots[1] = T(11, 0)
    /\ appts = <<>>

\* C9: for a first-time caller p1 and a free slot tomorrow at 14:00,
\* identify_user reports a new user and creates nothing, create_user
\* succeeds, book_appointment(p1, 'tomorrow', '2pm') confirms, and
\* get_appointments(p1) then lists exactly one appointment, p1's, dated
\* tomorrow at 14:00.
C9_FirstCallScenario ==
    /\ last.tool = "identify_user"
          => /\ last.kind = "new_user"
             /\ \A i \in 1..Len(users) : users[i].phone_number # "p1"
    /\ last.tool = "create_user" => last.kind = "created"
    /\ last.tool = "book_appointment" => last.kind = "confirmed"
    /\ last.tool = "get_appointments"
          => /\ last.kind = "listed" /\ Len(last.ids) = 1 /\ last.n = 1
             /\ appts[last.ids[1]].appointment_date = today + 1
             /\ appts[last.ids[1]].appointment_time = T(14, 0)
             /\ appts[last.ids[1]].status = "scheduled"
             /\ users[appts[last.ids[1]].user_id].phone_number = "p1"

\* the scenario ran to its end next to another caller's appointment
C9_Witness ==
    /\ last.tool = "get_appointments" /\ last.kind = "listed"
    /\ Len(appts) = 2 /\ Len(users) = 2

\* neither identify_user nor create_user has resolved a user in session s
Unidentified(s) == session_data[s].user_id = 0

\* C10: in a session whose identity is unset, the commits of
\* book_appointment, cancel_appointment and modify_appointment change no
\* appointment, and get_appointments lists none.
C10_UnidentifiedDoesNothing ==
    [][\A s \in Sessions :
          Unidentified(s)
          => /\ (book_commit(s) \/ cancel_commit(s) \/ modify_commit(s))
                => appts' = appts
             /\ \A ph \in Phones :
                   get_appointments(s, ph) => last'.kind # "listed"]_vars

\* C11: identify_user and create_user answer a phone number that is not ten
\* digits long with a format-correction prompt and start no insert; no user
\* row ever holds such a number and no session is identified with one.
C11_OnlyTenDigitPhones ==
    [][/\ \A s \in Sessions, ph \in AllPhones :
             PhoneLen(ph) # 10
             => /\ identify_user(s, ph) => last'.kind = "bad_phone"
                /\ create_user(s, ph, "Sarah")
                      => (last'.kind = "bad_phone" /\ pending' = pending)
       /\ \A i \in 1..Len(users') : PhoneLen(users'[i].phone_number) = 10
       /\ \A s \in Sessions :
             session_data'[s].user_phone # "none"
             => PhoneLen(session_data'[s].user_phone) = 10]_vars

\* the tool call of session s that writes session state in this step
Invokes(s) ==
    \/ \E ph \in Phones : identify_user(s, ph)
    \/ pending[s].op \in {"create_user", "book"} /\ pending'[s].op = "idle"

\* C12: with several calls in progress, a tool's update of the session
\* state (identity fields, booked-appointments entry) lands in the entry of
\* the session that invoked the tool and leaves every other entry as it was.
C12_UpdatesInvokingSession ==
    [][\A s \in Sessions :
          Invokes(s)
          => \A r \in Sessions \ {s} : session_data'[r] = session_data[r]]_vars

\* the call_summaries rows stored under session s
SummariesOf(s) == {i \in 1..Len(summaries) : summaries[i].session_id = s}

\* C13: once a call has ended, by end_conversation or by a disconnect or
\* shutdown, call_summaries holds exactly one row under its session
\* identifier, however often end_conversation ran.
C13_OneSummaryPerCall ==
    \A s \in end_invoked \cup shutdown : Cardinality(SummariesOf(s)) = 1

\* the identity fields and booking log of session s
ToolState(sd, s) ==
    <<sd[s].user_id, sd[s].user_name, sd[s].user_phone, sd[s].appointments_booked>>

\* C14: once end_conversation has run in a call, no later tool call of that
\* call changes the store or the call's session state.
C14_EndedIsTerminal ==
    [][\A s \in end_invoked :
          /\ users' = users /\ appts' = appts /\ summaries' = summaries
          /\ ToolState(session_data', s) = ToolState(session_data, s)]_vars

\* the facts session data d holds, in the order name, phone, bookings
KnownFacts(d) ==
    LET Known(p) == IF p.label = "Booked" THEN p.n > 0 ELSE p.str # "none"
    IN SelectSeq(<<Part("User", d.user_name, 0), Part("Phone", d.user_phone, 0),
                   Part("Booked", "", Len(d.appointments_booked))>>, Known)

\* C15: end_conversation returns a non-empty summary text, and the row it
\* stores carries that text, whether the generator answers with a text,
\* answers with empty content or raises, and when the transcript is empty;
\* when the generator raises, the text is the known facts of the session
\* (name, phone, number of appointments booked) joined in that order.
C15_SummaryNeverEmpty ==
    [][\A s \in Sessions, sid \in SessionArgs, gen \in GenOutcomes, ok \in BOOLEAN :
          end_conversation(s, sid, gen, ok)
          => /\ last'.text # <<>>
             /\ ok => /\ Len(summaries') = Len(summaries) + 1
                      /\ summaries'[Len(summaries')].summary = last'.text
             /\ (/\ gen = "raises"
                 /\ DataOf(sid).conversation_history # <<>>
                 /\ KnownFacts(DataOf(sid)) # <<>>)
                => last'.text = KnownFacts(DataOf(sid))]_vars

\* the generator raised in a call that knows name, phone and one booking,
\* and the structured text was returned and stored
C15_Witness ==
    /\ last.tool = "end_conversation"
    /\ last.text = <<Part("User", "Sarah", 0), Part("Phone", "p1", 0),
                     Part("Booked", "", 1)>>
    /\ summaries # <<>>
    /\ summaries[Len(summaries)].summary = last.text
    /\ summaries[Len(summaries)].session_id = "s1"

\* C16: whenever the store fails during a tool call, each of the eight tools
\* answers with the fixed apology that invites a retry, never with a text
\* that carries the internal error message.
C16_GenericApologyOnStoreFailure ==
    [][\A s \in Sessions :
          /\ \A tool \in Tools :
                store_failure(s, tool) => last'.kind = "error"
          /\ \A gen \in GenOutcomes :
                end_conversation(s, s, gen, FALSE) => last'.kind = "error"]_vars

\* appointment i starts after the present moment
Ahead(i) ==
    \/ appts[i].appointment_date > today
    \/ appts[i].appointment_date = today /\ appts[i].appointment_time > now

C18_ModifyMovesOneRow ==
    [][\A s \in Sessions :
          (pending[s].op = "modify" /\ pending'[s].op = "idle"
           /\ last'.kind = "updated")
          => LET id == pending[s].id
             IN /\ last'.ids = <<id>>
                /\ Len(appts') = Len(appts)
                /\ \A i \in 1..Len(appts) : i # id => appts'[i] = appts[i]
                /\ appts'[id].user_id = appts[id].user_id
                /\ appts[id].status = "scheduled"
                /\ appts'[id].status = "scheduled"
                /\ appts'[id].appointment_date = Flushed(appts[id].appointment_date,
                                                         pending[s].date)
                /\ appts'[id].appointment_time = Flushed(appts[id].appointment_time,
                                                         pending[s].time)]_vars

\* caller p1's appointment was moved to tomorrow 14:00 beside another row
C18_Witness ==
    /\ last.tool = "modify_appointment" /\ last.kind = "updated"
    /\ Len(appts) = 2
    /\ LET id == last.ids[1]
       IN /\ appts[id].user_id = 1 /\ appts[id].status = "scheduled"
          /\ appts[id].appointment_date = 1
          /\ appts[id].appointment_time = T(14, 0)
          /\ \E j \in 1..2 : j # id /\ appts[j].status = "scheduled"

\* the scheduled appointments other than m at date d, time t
OthersAt(m, d, t) ==
    {i \in 1..Len(appts) \ {m} :
        /\ appts[i].status = "scheduled"
        /\ appts[i].appointment_date = d /\ appts[i].appointment_time = t}

\* appointment m is at date d, time t
SitsAt(m, d, t) ==
    appts[m].appointment_date = d /\ appts[m].appointment_time = t

\* C19: moving an appointment to the date and time it already has is never
\* answered with a conflict and goes through unchanged, while moving it to
\* another slot that a different scheduled appointment holds is always
\* answered with a conflict and starts no write; for modify_appointment
\* (caller p1's single upcoming appointment m) and for the REST update.
C19_OwnSlotIsNoConflict ==
    [][/\ \A nt \in SlotTimes, m \in 1..Len(appts) :
             (modify_appointment("s1", "p1", Tomorrow, nt, NoDate)
              /\ OwnUpcoming(1) = {m})
             => /\ SitsAt(m, today + 1, ClockTime(nt))
                   => (Picks("s1", "modify") /\ pending'["s1"].id = m)
                /\ OthersAt(m, today + 1, ClockTime(nt)) # {}
                   => (last'.kind = "slot_taken" /\ pending' = pending
                       /\ appts' = appts)
       /\ \A id \in 1..Len(appts), t \in RestTimes, st \in {Unset, "cancelled"} :
             rest_update_appointment(id, None, t, st)
             => /\ SitsAt(id, appts[id].appointment_date, t)
                   => Picks("rest", "rest_update")
                /\ (OthersAt(id, appts[id].appointment_date, t) # {}
                    /\ ~SitsAt(id, appts[id].appointment_date, t))
                   => (last'.kind = "409" /\ pending' = pending /\ appts' = appts)
       /\ (pending["s1"].op = "modify" /\ pending'["s1"].op = "idle"
           /\ pending["s1"].date = None /\ pending["s1"].time = None)
          => (last'.kind = "updated" /\ appts' = appts)]_vars

\* caller p1 moved their only appointment onto its own slot and was told it
\* is updated, beside another caller's appointment
C19_Witness ==
    /\ last.tool = "modify_appointment" /\ last.kind = "updated"
    /\ Len(appts) = 2
    /\ appts[last.ids[1]].user_id = 1 /\ appts[last.ids[1]].status = "scheduled"
    /\ \E j \in 1..2 : appts[j].user_id = 2 /\ appts[j].status = "scheduled"
    /\ pending["rest"].op = "rest_update" /\ pending["rest"].date = None
    /\ pending["rest"].time = None

\* C20: book_appointment creates an appointment only within business
\* hours: no appointment it created starts before 09:00 or after 16:00,
\* the last bookable start.
C20_BookedWithinBusinessHours ==
    \A i \in 1..Len(appts) :
        /\ appts[i].appointment_time >= T(OpenHour, 0)
        /\ appts[i].appointment_time <= T(CloseHour - 1, 0)

\* C21: appointment status only moves forward: under no operation of the
\* tools or the REST API does an appointment that is cancelled or completed
\* become scheduled again.
C21_StatusOnlyForward ==
    [][\A i \in 1..Len(appts) :
          appts[i].status \in {"cancelled", "completed"}
          => appts'[i].status # "scheduled"]_vars

\* a worker p finishes a cancellation in this step
Cancels(p) == pending[p].op \in {"cancel", "rest_cancel"} /\ pending'[p].op = "idle"

\* C22: no operation of the tools or the REST API removes an appointment
\* row: every row of the store is still there after every step, under its
\* id and with its owner, and a cancellation changes nothing but the status
\* of the one appointment it cancels.
C22_RowsNeverRemoved ==
    [][/\ Len(appts') >= Len(appts)
       /\ \A i \in 1..Len(appts) : appts'[i].user_id = appts[i].user_id
       /\ \A p \in Procs :
             Cancels(p)
             => /\ Len(appts') = Len(appts)
                /\ \A i \in 1..Len(appts) :
                      \/ appts'[i] = appts[i]
                      \/ /\ i = pending[p].id
                         /\ appts'[i] = [appts[i] EXCEPT !.status = "cancelled"]]_vars

\* DELETE /appointments/{id} answered 200, and both rows are still in the
\* store, one of them cancelled
C22_Witness ==
    /\ last.tool = "rest" /\ last.kind = "200"
    /\ Len(appts) = 2
    /\ \E i \in 1..2 : appts[i].status = "cancelled"
    /\ \E i \in 1..2 : appts[i].status = "scheduled"

\* the agent of call s states the caller's appointments in this step
StatesAppointments(s) ==
    /\ Len(turns'[s]) = Len(turns[s]) + 1
    /\ turns'[s][Len(turns'[s])].role = "assistant"
    /\ turns'[s][Len(turns'[s])].content.head = "appointments"

\* C23: every agent turn that states which appointments the caller has
\* comes directly after a get_appointments or identify_user call, with no
\* book, cancel or modify call of the session since that call.
C23_FreshBeforeStating ==
    [][\A s \in Sessions :
          StatesAppointments(s)
          => (last.tool \in {"get_appointments", "identify_user"}
              /\ pending[s].op = "idle")]_vars

\* C24: once the events of the turns spoken so far are handled, the
\* transcript of the session holds every caller turn and every agent turn
\* exactly once, in the order they were spoken.
C24_TranscriptIsTheTurns ==
    \A s \in Sessions :
        events[s] = {} => session_data[s].conversation_history = turns[s]

\* day d is the next day after today that falls on weekday i (0 = Monday)
NextOn(i, d) ==
    /\ d > today /\ d - today <= 7
    /\ d % 7 = i
    /\ (today % 7 = i) => d = today + 7

\* C25: for every reference day and every weekday name, the weekday branch
\* of get_availability and book_appointment resolves to the next day
\* strictly after the reference day that falls on that weekday: 1 to 7 days
\* ahead, and 7 days ahead when the reference day is that weekday.
C25_WeekdayStrictlyAfter ==
    [][\A i \in 0..6 :
          /\ get_availability("s1", Weekday(i))
             => (last'.kind \in {"slots", "no_slots"} /\ NextOn(i, last'.date))
          /\ book_appointment("s1", "p1", Weekday(i), Bare(10, "am"))
             => /\ Picks("s1", "book") => NextOn(i, pending'["s1"].date)
                /\ ~Picks("s1", "book")
                   => (last'.kind = "slot_taken" /\ NextOn(i, last'.date))]_vars

\* asked on a Tuesday for "Tuesday": the slots of the Tuesday a week later
C25_Witness ==
    /\ last.tool = "get_availability" /\ last.kind = "slots"
    /\ today = 1 /\ last.date = 8

\* the day of the current (leap) year that a January or February phrase
\* names, counted from 1 January = day 0
ThisYear(p) == (IF p.day \div 100 = 1 THEN 0 ELSE 31) + (p.day % 100) - 1

\* month-and-day phrases that name a day of the current year
RealDays == {MonthDay(1, 2), MonthDay(2, 29)}

\* C26: in get_availability, book_appointment, cancel_appointment and
\* modify_appointment a month-and-day phrase without a year resolves to that
\* month and day of the current year: availability is answered for that day,
\* the booking and the move go to that day, and the cancellation finds the
\* caller's single appointment of that day.
C26_MonthDayInCurrentYear ==
    [][\A p \in RealDays :
          /\ get_availability("s1", p)
             => (last'.kind \in {"slots", "no_slots"} /\ last'.date = ThisYear(p))
          /\ (book_appointment("s1", "p1", p, Bare(10, "am")) /\ Picks("s1", "book"))
             => pending'["s1"].date = ThisYear(p)
          /\ (modify_appointment("s1", "p1", p, Bare(10, "am"), NoDate)
              /\ Picks("s1", "modify"))
             => Flushed(appts[pending'["s1"].id].appointment_date,
                        pending'["s1"].date) = ThisYear(p)
          /\ \A m \in OwnUpcoming(1) :
                (/\ cancel_appointment("s1", "p1", p)
                 /\ {i \in OwnUpcoming(1) : appts[i].appointment_date = ThisYear(p)} = {m})
                => (Picks("s1", "cancel") /\ pending'["s1"].id = m)]_vars

\* the bare hours the rule speaks of, and the time of day it gives each
Ruled(h, mer) ==
    \/ mer = "" /\ h >= 1
    \/ mer = "pm" /\ h < 12
    \/ mer = "am" /\ h = 12

RuledTime(h, mer) ==
    CASE mer = "" /\ h <= 8 -> T(h + 12, 0)
      [] mer = "" /\ h >= 9 /\ h <= 23 -> T(h, 0)
      [] mer = "" /\ h > 23 -> None
      [] mer = "pm" -> T(h + 12, 0)
      [] mer = "am" -> T(0, 0)

\* C27: a bare hour h without am/pm resolves to (h+12):00 for h in 1..8, to
\* h:00 for h in 9..23 and to nothing for h above 23; with 'pm' and h < 12
\* it resolves to (h+12):00, with 'am' and h = 12 to 00:00.  A booking made
\* with such a phrase asks for a rephrase, or is held or refused at exactly
\* that time.
C27_BareHourResolution ==
    [][\A h \in 0..MaxHourSaid, mer \in {"", "am", "pm"} :
          Ruled(h, mer)
          => /\ ParseTimeBook(Bare(h, mer)) = RuledTime(h, mer)
             /\ book_appointment("s1", "p1", Tomorrow, Bare(h, mer))
                => IF RuledTime(h, mer) = None THEN last'.kind = "bad_time"
                   ELSE IF Picks("s1", "book")
                   THEN pending'["s1"].time = RuledTime(h, mer)
                   ELSE \/ last'.kind = "closed"
                        \/ /\ last'.kind = "slot_taken"
                           /\ last'.time = RuledTime(h, mer)]_vars

\* "2" was booked as 14:00 and a second "2" found that slot taken
C27_Witness ==
    /\ last.tool = "book_appointment" /\ last.kind = "slot_taken"
    /\ last.time = T(14, 0)
    /\ \E i \in 1..Len(appts) : appts[i].appointment_time = T(14, 0)

\* the tool call of this step asks the caller to rephrase and starts no write
AsksToRephrase ==
    /\ last'.kind \in {"bad_date", "bad_time"}
    /\ pending' = pending

\* C28: when the date filter given to cancel_appointment, or the old-date
\* filter given to modify_appointment, cannot be resolved by the tool, a
\* caller with an upcoming appointment is asked to rephrase and nothing is
\* written: the tool does not go on as if no filter had been given.
C28_UnresolvedIsNeverGuessed ==
    [][OwnUpcoming(1) # {}
       => /\ cancel_appointment("s1", "p1", Garbage) => AsksToRephrase
          /\ \A t \in SlotTimes :
                modify_appointment("s1", "p1", Tomorrow, t, Today)
                => AsksToRephrase]_vars

\* no scheduled appointment is at date d, time t
FreeAt(d, t) ==
    \A i \in 1..Len(appts) :
        ~(/\ appts[i].status = "scheduled"
          /\ appts[i].appointment_date = d /\ appts[i].appointment_time = t)

\* book_appointment answers in this step that the slot is taken
SaysTaken ==
    /\ last' # last
    /\ last'.tool = "book_appointment" /\ last'.kind = "slot_taken"

\* C29: when book_appointment finds the requested slot taken, it offers at
\* most 3 alternatives, each a free slot of the requested date and none the
\* requested time.
C29_AlternativesAreFree ==
    [][SaysTaken
       => /\ ~FreeAt(last'.date, last'.time)
          /\ Len(last'.slots) <= 3
          /\ \A k \in 1..Len(last'.slots) :
                /\ FreeAt(last'.date, last'.slots[k])
                /\ last'.slots[k] # last'.time]_vars

\* 10:00 is taken and three other times of that day are offered
C29_Witness ==
    /\ last.tool = "book_appointment" /\ last.kind = "slot_taken"
    /\ last.time = T(10, 0)
    /\ last.slots = <<T(9, 0), T(11, 0), T(12, 0)>>

(***************************************************************************)
(* SpecList: one call reads and cancels over a store that already holds    *)
(* up to MaxStored rows: caller p1's appointments of three days in no      *)
(* particular order, one of another user and one cancelled.                *)
(***************************************************************************)
Booked(uid, d, t, st) ==
    [user_id |-> uid, appointment_date |-> d, appointment_time |-> t, status |-> st]

Stored ==
    << Booked(1, 1, T(14, 0), "scheduled"),
       Booked(1, 0, T(10, 0), "scheduled"),
       Booked(2, 1, T(9, 0),  "scheduled"),
       Booked(1, 2, T(9, 0),  "scheduled"),
       Booked(1, 1, T(11, 0), "cancelled"),
       Booked(1, 1, T(10, 0), "scheduled"),
       Booked(1, 0, T(16, 0), "scheduled"),
       Booked(1, 2, T(15, 0), "scheduled"),
       Booked(1, 1, T(16, 0), "scheduled"),
       Booked(1, 2, T(11, 0), "scheduled") >>

InitList ==
    /\ Blank
    /\ users = BothUsers
    /\ \E k \in 0..MaxStored : appts = Take(Stored, k)
    /\ session_keys = <<"s1">>

NextList ==
    \/ Tick
    \/ \E ph \in Phones : get_appointments("s1", ph)
    \/ \E d \in 0..2 : cancel_appointment("s1", "p1", Iso(d))
    \/ cancel_commit("s1")

SpecList == InitList /\ [][NextList]_vars

\* the upcoming scheduled appointments of user uid
Mine(uid) ==
    {i \in 1..Len(appts) :
        appts[i].user_id = uid /\ appts[i].status = "scheduled" /\ Ahead(i)}

\* appointment i is strictly earlier than appointment j by (date, time)
Earlier(i, j) ==
    \/ appts[i].appointment_date < appts[j].appointment_date
    \/ /\ appts[i].appointment_date = appts[j].appointment_date
       /\ appts[i].appointment_time < appts[j].appointment_time

\* the user registered under phone number ph, 0 if there is none
Holder(ph) ==
    IF \E u \in 1..Len(users) : users[u].phone_number = ph
    THEN CHOOSE u \in 1..Len(users) : users[u].phone_number = ph
    ELSE 0

RestNames == {"none", "Sam"}

InitUsers ==
    /\ Blank
    /\ users \in {<<>>, <<Row("p1", "none")>>}
    /\ appts = <<>>
    /\ session_keys = <<"s1", "s2">>

NextUsers ==
    \/ \E s \in Sessions, ph \in Phones : create_user(s, ph, "Sarah")
    \/ \E s \in Sessions : create_user_commit(s)
    \/ \E ph \in Phones, name \in RestNames : rest_create_user(ph, name)
    \/ rest_create_user_flush
    \/ \E ph \in Phones, name \in RestNames : rest_identify_or_create_user(ph, name)
    \/ rest_identify_flush

SpecUsers == InitUsers /\ [][NextUsers]_vars

\* some user has phone number ph
Registered(ph) == \E i \in 1..Len(users) : users[i].phone_number = ph

\* C31: at most one User exists per phone number under any interleaving of
\* create_user, the REST create and identify_or_create_user; create_user for
\* a phone number that already has a User answers 'already exists', creates
\* no row and leaves the existing user's name as it is.
C31_OneUserPerPhone ==
    /\ [](\A i, j \in 1..Len(users) :
             users[i].phone_number = users[j].phone_number => i = j)
    /\ [][\A s \in Sessions, ph \in Phones :
             create_user(s, ph, "Sarah") /\ Registered(ph)
             => /\ last'.tool = "create_user" /\ last'.kind = "exists"
                /\ users' = users
                /\ pending' = pending]_vars

\* create_user answers 'already exists' for p1, whom the REST route named Sam
\* while a second user is in the store
C31_Witness ==
    /\ last.tool = "create_user" /\ last.kind = "exists"
    /\ users = <<Row("p1", "Sam"), Row("p2", "Sarah")>>

(***************************************************************************)
(* SpecSlots: one call books and cancels for today and tomorrow while the  *)
(* clock moves; availability is asked of the tool for a date and of the    *)
(* REST route for the days ahead.                                          *)
(***************************************************************************)
SlotDates == {Tomorrow, Iso(1), Iso(2), Iso(5)}
DaysAhead == {1, 7}

NextSlots ==
    \/ Tick
    \/ \E d \in {Today, Tomorrow}, t \in SlotTimes :
           book_appointment("s1", "p1", d, t)
    \/ book_commit("s1")
    \/ cancel_appointment("s1", "p1", NoDate)
    \/ cancel_commit("s1")
    \/ \E arg \in SlotDates : get_availability("s1", arg)
    \/ \E n \in DaysAhead : rest_get_available_slots(n)

SpecSlots == InitCall /\ [][NextSlots]_vars

\* the hourly starts 09:00 .. 16:00 that no scheduled appointment holds on
\* date d, in ascending order
GridFree(d) ==
    SelectSeq([k \in 1..8 |-> T(8 + k, 0)], LAMBDA t : FreeAt(d, t))

\* the times of day an answer of the REST route lists for date d
ListedFor(slots, d) ==
    LET on_d == SelectSeq(slots, LAMBDA x : DateOf(x) = d)
    IN [k \in 1..Len(on_d) |-> TimeOf(on_d[k])]

\* C32: for every date, the available slots returned are, in ascending
\* order, exactly the hourly slots 09:00 .. 16:00 that no scheduled
\* appointment holds on that date (a slot held only by a cancelled
\* appointment is returned): by the tool for a date that is not today, and
\* by the REST route for each of the days it was asked about.
C32_SlotsAreGridMinusScheduled ==
    [][/\ (last' # last /\ last'.tool = "get_availability"
             /\ last'.kind \in {"slots", "no_slots"} /\ last'.date # last'.today)
          => last'.slots = GridFree(last'.date)
       /\ (last' # last /\ last'.tool = "rest_slots")
          => \A d \in last'.date..(last'.date + last'.n - 1) :
                 ListedFor(last'.slots, d) = GridFree(d)]_vars

(***************************************************************************)
(* SpecSummary: one call of known caller p1 ends by end_conversation while *)
(* the text generator answers, fails or stays silent.  The call's own      *)
(* steps are taken when they can be; the generator owes nothing.           *)
(***************************************************************************)
NextSummary ==
    \/ Entrypoint("s1")
    \/ on_user_input_transcribed("s1")
    \/ identify_user("s1", "p1")
    \/ book_appointment("s1", "p1", Tomorrow, Bare(10, "am"))
    \/ book_commit("s1")
    \/ \E store_ok \in BOOLEAN :
           /\ DataOf("s1").conversation_history = <<>>
           /\ end_conversation("s1", "s1", "text", store_ok)
    \/ end_conversation_begin("s1", "s1")
    \/ \E gen \in GenOutcomes, store_ok \in BOOLEAN :
           generator_responds("s1", gen, store_ok)
    \/ \E store_ok \in BOOLEAN : request_timeout("s1", store_ok)

SpecSummary ==
    /\ InitEnd
    /\ [][NextSummary]_vars
    /\ WF_vars(\E store_ok \in BOOLEAN : request_timeout("s1", store_ok))

\* end_conversation is waiting for the text generator
Summarizing(s) == pending[s].op = "end_conversation"

NextRegistry ==
    \/ \E s \in Sessions : Entrypoint(s)
    \/ \E s \in Sessions : on_user_input_transcribed(s)
    \/ \E s \in Sessions : identify_user(s, "p1")
    \/ \E s \in Sessions, session_id \in Sessions, gen \in GenOutcomes :
           end_conversation(s, session_id, gen, TRUE)
    \/ \E s \in Sessions : Disconnect(s)

SpecRegistry == InitEnd /\ [][NextRegistry]_vars

\* C34: when a call has ended, the session registry holds no entry for its
\* session.
C34_EndedSessionIsRemoved ==
    \A k \in 1..Len(session_keys) : session_keys[k] \notin shutdown

\* this step adds an appointment row
AddsRow == Len(appts') = Len(appts) + 1

\* C35: every appointment book_appointment creates lies, at the moment it is
\* created, on a date after today or on today's date at a time after the
\* current time.
C35_NeverBooksThePast ==
    [][AddsRow
       => LET row == appts'[Len(appts')] IN
          \/ row.appointment_date > today
          \/ row.appointment_date = today /\ row.appointment_time > now]_vars

(***************************************************************************)
(* SpecGrid: one call books caller p1 on the hour within business hours    *)
(* and moves the appointment to times on and off the grid.                 *)
(***************************************************************************)
MovePhrases == {Bare(2, "pm"), Bare(8, "pm"), Colon(4, 30, "pm"), Colon(7, 0, ""),
                BadTime}

NextGrid ==
    \/ \E t \in SlotTimes : book_appointment("s1", "p1", Tomorrow, t)
    \/ book_commit("s1")
    \/ \E d \in {Today, Tomorrow}, t \in MovePhrases :
           modify_appointment("s1", "p1", d, t, NoDate)
    \/ modify_commit("s1")

SpecGrid == InitCall /\ [][NextGrid]_vars

\* C36: after any sequence of book_appointment and modify_appointment calls
\* every scheduled appointment starts on the hour, between 09:00 and 16:00.
C36_ScheduledOnTheGrid ==
    \A i \in 1..Len(appts) :
        appts[i].status = "scheduled"
        => /\ appts[i].appointment_time % 60 = 0
           /\ 9 <= appts[i].appointment_time \div 60
           /\ appts[i].appointment_time \div 60 <= 16

\* C37: when modify_appointment of one call and cancel_appointment of another
\* interleave on the same appointment, modify_appointment reports a
\* successful update only if the appointment is still scheduled when the
\* change is committed, and a cancelled appointment never has its date or
\* time changed.
C37_CancelledIsNeverMoved ==
    [][/\ \A i \in 1..Len(appts) :
             appts[i].status = "cancelled"
             => /\ appts'[i].appointment_date = appts[i].appointment_date
                /\ appts'[i].appointment_time = appts[i].appointment_time
       /\ \A s \in Sessions :
             (/\ pending[s].op = "modify" /\ pending'[s].op = "idle"
              /\ last'.tool = "modify_appointment" /\ last'.kind = "updated")
             => appts[pending[s].id].status = "scheduled"]_vars

(***************************************************************************)
(* SpecRefuse: two calls book, one of them also cancels and moves, with    *)
(* phrases that resolve and phrases that do not, times inside and outside  *)
(* business hours, and for a phone number with and without an account.     *)
(***************************************************************************)
InitRefuse ==
    /\ Blank
    /\ users = <<Row("p1", "Sarah")>>
    /\ appts = <<>>
    /\ session_keys = <<"s1", "s2">>

RefuseDates == {Tomorrow, Garbage}
RefuseTimes == {Bare(10, "am"), Bare(8, "pm"), BadTime}

NextRefuse ==
    \/ \E s \in Sessions, ph \in Phones, d \in RefuseDates, t \in RefuseTimes :
           book_appointment(s, ph, d, t)
    \/ \E s \in Sessions : book_commit(s)
    \/ \E ph \in Phones : cancel_appointment("s1", ph, NoDate)
    \/ cancel_commit("s1")
    \/ \E ph \in Phones, d \in RefuseDates, t \in {Bare(2, "pm"), BadTime} :
           modify_appointment("s1", ph, d, t, NoDate)
    \/ modify_commit("s1")

SpecRefuse == InitRefuse /\ [][NextRefuse]_vars

\* the outcomes of book, cancel and modify that are not a success
Refusals ==
    {"bad_date", "bad_time", "closed", "slot_taken", "no_account", "no_user",
     "nothing", "disambiguation", "error", "error_detail"}

\* this step ends a call of book, cancel or modify without success
Refuses ==
    /\ last' # last
    /\ last'.tool \in {"book_appointment", "cancel_appointment", "modify_appointment"}
    /\ last'.kind \in Refusals

\* C38: every non-success outcome of book_appointment, cancel_appointment and
\* modify_appointment leaves the set of appointments, every appointment's
\* fields and every session's booked-appointments log unchanged.
C38_RefusalChangesNothing ==
    [][Refuses
       => /\ appts' = appts
          /\ \A s \in Sessions :
                session_data'[s].appointments_booked
                    = session_data[s].appointments_booked]_vars

\* cancel_appointment has asked which of two scheduled appointments is meant
C38_Witness ==
    /\ last.tool = "cancel_appointment" /\ last.kind = "disambiguation"
    /\ Len(appts) = 2
    /\ \A i \in 1..Len(appts) : appts[i].status = "scheduled"

\* C39: booking a free future slot and then cancelling that appointment
\* restores availability, any number of times on the same slot: whenever
\* cancel_appointment finishes for a booked appointment, no scheduled
\* appointment holds its date and time any longer, so get_availability lists
\* the slot again and it can be booked again.
C39_CancelFreesTheSlot ==
    [][\A s \in Sessions :
          (pending[s].op = "cancel" /\ pending'[s].op = "idle")
          => LET a == appts[pending[s].id] IN
             /\ last'.tool = "cancel_appointment" /\ last'.kind = "cancelled"
             /\ \A i \in 1..Len(appts') :
                   ~(/\ appts'[i].status = "scheduled"
                     /\ appts'[i].appointment_date = a.appointment_date
                     /\ appts'[i].appointment_time = a.appointment_time)]_vars

====
